---- MODULE Spec2Model ----
(***************************************************************************)
(* Model of the Solana address-analysis route                              *)
(* (src/src/app/api/tools/solana-address-analysis/route.ts).               *)
(*                                                                         *)
(* The file holds two variants of the route: the cached variant (lines     *)
(* 417-872) and the older uncached variant (lines 1-416).                  *)
(*                                                                         *)
(* Conventions of the model                                                *)
(*   - time is counted in minutes: Date.now() is `now`, CACHE_TTL is 5 and *)
(*     shortCacheTime is 1 (the source holds them in milliseconds);        *)
(*   - a JavaScript Map is a sequence of <<key, value>> pairs in insertion *)
(*     order, which is the order Map iteration and Array.from observe;     *)
(*   - a volume (a float number of SOL in the source) is an integer number *)
(*     of micro-SOL; every modelled amount is a multiple of one micro-SOL, *)
(*     so that the sums of the source are exact;                           *)
(*   - null is the record `null`; an optional property that is absent is   *)
(*     a field that is missing from the record (tested with DOMAIN);       *)
(*   - a text built from a template is the sequence of its parts.          *)
(***************************************************************************)
EXTENDS Integers, Sequences, FiniteSets, TLC

null == [null |-> TRUE]

----------------------------------------------------------------------------
(* Bounds of the model *)

\* the clock stops at MaxNow minutes
MaxNow == 6
\* number of direct cache insertions in the cache-only specification
MaxPuts == 3
\* the store's capacity; the source sets 1000, the model is checked with a
\* capacity small enough for the store to fill up
MAX_CACHE_SIZE == 1

\* number of signatures the listing call returns at most in the orchestrator
\* specification (the request asks for at most 50)
MaxSigs == 6
(* Program constants *)
CACHE_TTL == 5
shortCacheTime == 1

----------------------------------------------------------------------------
(* Sequences and Maps *)

Range(s) == {s[i] : i \in 1..Len(s)}

RECURSIVE SelectIndex(_, _, _)
\* index of the first pair of map m (from position i on) whose key is k, or 0
SelectIndex(m, k, i) ==
    IF i > Len(m) THEN 0
    ELSE IF m[i][1] = k THEN i
    ELSE SelectIndex(m, k, i + 1)

MapHas(m, k) == SelectIndex(m, k, 1) # 0
MapGet(m, k, default) ==
    IF MapHas(m, k) THEN m[SelectIndex(m, k, 1)][2] ELSE default
\* Map.set: an existing key keeps its position, a new key goes last
MapSet(m, k, v) ==
    IF MapHas(m, k)
    THEN [m EXCEPT ![SelectIndex(m, k, 1)] = <<k, v>>]
    ELSE Append(m, <<k, v>>)
MapDelete(m, k) == SelectSeq(m, LAMBDA p : p[1] # k)
MapKeys(m) == [i \in 1..Len(m) |-> m[i][1]]

----------------------------------------------------------------------------
(* Result cache (cached variant) *)

\* getCacheKey: the key is the address behind the prefix 'analysis:'
getCacheKey(address) == <<"analysis:", address>>

\* variant: the entry's own ttl is ignored
isExpiredGlobalTtl(entry, t) == t - entry.timestamp > CACHE_TTL

\* the expiry test of getCachedAnalysis and cleanupCache
isExpired(entry, t) == t - entry.timestamp > entry.ttl

\* variant: a lookup that finds an expired entry drops every expired entry
getCachedAnalysisSweeping(cache, address, t) ==
    LET key == <<"analysis:", address>>
        entry == MapGet(cache, key, null)
    IN  IF entry = null THEN [data |-> null, cache |-> cache]
        ELSE IF t - entry.timestamp > entry.ttl
             THEN [data |-> null,
                   cache |-> SelectSeq(cache, LAMBDA p : ~(t - p[2].timestamp > p[2].ttl))]
             ELSE [data |-> entry.data, cache |-> cache]

\* getCachedAnalysis: the returned data (null when absent or expired) and the
\* store it leaves behind
getCachedAnalysis(cache, address, t) ==
    LET key == getCacheKey(address)
        entry == MapGet(cache, key, null)
    IN  IF entry = null THEN [data |-> null, cache |-> cache]
        ELSE IF isExpired(entry, t)
             THEN [data |-> null, cache |-> MapDelete(cache, key)]
             ELSE [data |-> entry.data, cache |-> cache]

RECURSIVE InsertByTimestamp(_, _)
\* pair x placed in the timestamp-sorted sequence s behind every pair that is
\* not younger than it
InsertByTimestamp(s, x) ==
    IF s = << >> THEN <<x>>
    ELSE IF x[2].timestamp < Head(s)[2].timestamp THEN <<x>> \o s
    ELSE <<Head(s)>> \o InsertByTimestamp(Tail(s), x)

RECURSIVE SortByTimestamp(_)
\* entries.sort((a, b) => a[1].timestamp - b[1].timestamp), a stable sort
SortByTimestamp(s) ==
    IF s = << >> THEN << >>
    ELSE InsertByTimestamp(SortByTimestamp(SubSeq(s, 1, Len(s) - 1)), s[Len(s)])

\* the size test that starts the eviction of the oldest entries
cacheTooLarge(size) == size > MAX_CACHE_SIZE

\* cleanupCache: drops the expired entries, then the oldest ones while the
\* store is too large
cleanupCache(cache, t) ==
    LET live == SelectSeq(cache, LAMBDA p : ~isExpired(p[2], t))
    IN  IF cacheTooLarge(Len(live))
        THEN LET entries == SortByTimestamp(live)
                 entriesToRemove == SubSeq(entries, 1, Len(live) - MAX_CACHE_SIZE)
                 removed == {entriesToRemove[i][1] : i \in 1..Len(entriesToRemove)}
             IN  SelectSeq(live, LAMBDA p : p[1] \notin removed)
        ELSE live

\* variant: every result is stored with the time-to-live of an error result
setCachedAnalysisShortTtl(cache, address, data, t) ==
    MapSet(cleanupCache(cache, t), getCacheKey(address),
           [data |-> data, timestamp |-> t, ttl |-> shortCacheTime])

\* setCachedAnalysis: cleanup, then insertion with the success ttl
setCachedAnalysis(cache, address, data, t) ==
    MapSet(cleanupCache(cache, t), getCacheKey(address),
           [data |-> data, timestamp |-> t, ttl |-> CACHE_TTL])

\* the insertion of an error result in the catch block of analyzeAddress
cacheErrorResult(cache, address, errorResult, t) ==
    MapSet(cache, getCacheKey(address),
           [data |-> errorResult, timestamp |-> t, ttl |-> shortCacheTime])
----------------------------------------------------------------------------
(* External collaborators and configuration *)

\* addresses a request may carry; '' is a request without address parameter
ValidAddresses == {"A1", "A2", "A3", "A4", "A5", "A6", "A7", "A8"}
InvalidAddresses == {"not-base58"}
\* the orchestrator specification serves requests for one valid address
RequestAddresses == {"A1"} \cup InvalidAddresses \cup {""}

\* isValidSolanaAddress: new PublicKey(address) does not throw
isValidSolanaAddress(address) == address \in ValidAddresses

FALLBACK_RPCS == <<"https://rpc.ankr.com/solana",
                   "https://api.mainnet-beta.solana.com",
                   "https://solana-api.projectserum.com">>

\* values of process.env.HELIUS_RPC_URL; '' is the unset variable
EnvUrls == {"", "https://rpc.helius.xyz/?api-key=KEY", "https://node.quiknode.pro/KEY"}

\* rpcUrl.includes('helius')
includesHelius(url) == url \in {"https://rpc.helius.xyz/?api-key=KEY"}

\* error.message of the errors the provider raises
ErrorMessages == {"429 Too Many Requests", "fetch failed"}

\* errorMessage.includes('429') || errorMessage.includes('Too Many Requests')
isRateLimited(errorMessage) == errorMessage \in {"429 Too Many Requests"}

SYSTEM_PROGRAM == "11111111111111111111111111111111"
TOKEN_PROGRAM == "TokenkegQfeZyiNwAJbNbGKPFXCWuBvf9Ss623VQ5DA"
COMPUTE_BUDGET == "ComputeBudget111111111111111111111111111111"
SYSVAR_RENT == "SysvarRent111111111111111111111111111111111"
SYSVAR_CLOCK == "SysvarClock111111111111111111111111111111111"

USDC == "EPjFWdd5AufqSSqeM2qN1xzybapC8G4wEGGkZwyTDt1v"
WSOL == "So11111111111111111111111111111111111111112"
UNKNOWN_MINT == "UnknownMint1111111111111111111111111111111"

\* TOKEN_TO_SOL_RATES in micro-SOL per token, as numerator and denominator
TOKEN_TO_SOL_RATES ==
    <<  <<USDC, [num |-> 4000, den |-> 1]>>,
        <<"Es9vMFrzaCERmJfrF4H2FYD4KCoNkY11McCe8BenwNYB", [num |-> 4000, den |-> 1]>>,
        <<WSOL, [num |-> 1000000, den |-> 1]>>,
        <<"mSoLzYCxHdYgdzU16g5QSh3i5K3z3KZK7ytfqcJm7So", [num |-> 1000000, den |-> 1]>>,
        <<"bSo13r4TkiE4KumL71LsHTPpL2euBYLFx6h9HP3piy1", [num |-> 1000000, den |-> 1]>>,
        <<"JUP4Fb2cqiRUcaTHdrPC8h2gNsA2ETXiPDD33WcGuJB", [num |-> 3500, den |-> 1]>>,
        <<"7vfCXTUXx5WJV5JADk17DUJ4ksgau7utNKj4b963voxs", [num |-> 150000, den |-> 1]>>,
        <<"DezXAZ8z7PnrnRJjz3wXBoRgixCa6xjnB7YaB1pPB263", [num |-> 6, den |-> 100]>>,
        <<"WENWENvqqNya429ubCdR81ZmD69brwQaaBYY6p3LCpk", [num |-> 1, den |-> 1]>>,
        <<"hntyVP6YFm1Hg25TN9WGLqM12b8TQmcknKrdu1oxWux", [num |-> 3, den |-> 1]>>,
        <<"MEW1gQWJ3nEXg2qgERiKu7FAFj79PHvQVREQUzScPP5", [num |-> 100, den |-> 1]>>,
        <<"MangoCzJ36AjZyKwVj3VnYU4GTonjfVEnJmvvWaxLac", [num |-> 100, den |-> 1]>>,
        <<"SHDWyBxihqiCj6YekG2GUr7wqKLeLAMK1gHZck9pL6y", [num |-> 2, den |-> 1]>>,
        <<"A9mUU4qviSctJVPJdBJWkb28deg915LYJKrzQ19ji3FM", [num |-> 1, den |-> 1]>>  >>

RECURSIVE Pow10(_)
Pow10(d) == IF d = 0 THEN 1 ELSE 10 * Pow10(d - 1)

Abs(x) == IF x < 0 THEN -x ELSE x
Min(a, b) == IF a < b THEN a ELSE b

\* variant: a mint without rate counts like wrapped SOL
getTokenValueInSolDefaultOne(mint, tokenAmount, decimals) ==
    LET solRate == MapGet(TOKEN_TO_SOL_RATES, mint, [num |-> 1000000, den |-> 1])
    IN  (tokenAmount * solRate.num) \div (solRate.den * Pow10(decimals))

\* getTokenValueInSol: tokenAmount / 10^decimals * rate, in micro-SOL
getTokenValueInSol(mint, tokenAmount, decimals) ==
    LET solRate == MapGet(TOKEN_TO_SOL_RATES, mint, [num |-> 0, den |-> 1])
    IN  (tokenAmount * solRate.num) \div (solRate.den * Pow10(decimals))

\* Number.prototype.toFixed on a value in micro-SOL: the value rounded to
\* `places` decimals, as the integer that the printed digits spell
toFixed(solValue, places) ==
    LET step == Pow10(6 - places)
    IN  (solValue + step \div 2) \div step

\* variant: the bracket below 1 SOL is tested before the bracket below 0.001
formatSolAmountMisordered(solValue) ==
    IF solValue = 0 THEN <<0, 0, " SOL">>
    ELSE IF solValue < 1000000 THEN <<toFixed(solValue, 3), 3, " SOL">>
    ELSE IF solValue < 1000 THEN <<toFixed(solValue, 6), 6, " SOL">>
    ELSE IF solValue < 1000000000 THEN <<toFixed(solValue, 2), 2, " SOL">>
    ELSE <<toFixed(solValue, 0), 0, " SOL">>

\* formatSolAmount of the cached variant: <<digits, decimal places, unit>>
formatSolAmount(solValue) ==
    IF solValue = 0 THEN <<0, 0, " SOL">>
    ELSE IF solValue < 1000 THEN <<toFixed(solValue, 6), 6, " SOL">>
    ELSE IF solValue < 1000000 THEN <<toFixed(solValue, 3), 3, " SOL">>
    ELSE IF solValue < 1000000000 THEN <<toFixed(solValue, 2), 2, " SOL">>
    ELSE <<toFixed(solValue, 0), 0, " SOL">>

\* a text is not the empty string
NonEmptyText(text) == \E i \in 1..Len(text) : text[i] # ""

----------------------------------------------------------------------------
(* Response payloads of the cached variant *)

\* analyzeAddress, lines 575-580
InvalidResult(address) ==
    [address |-> address, isValid |-> FALSE, relatedAccounts |-> << >>,
     error |-> <<"Invalid Solana address format">>]

\* variant: an address without transactions is reported as an error
EmptyResultWithError(address) ==
    [address |-> address, isValid |-> TRUE, relatedAccounts |-> << >>,
     error |-> <<"No transactions found">>]

\* analyzeAddress, lines 602-606
EmptyResult(address) ==
    [address |-> address, isValid |-> TRUE, relatedAccounts |-> << >>]

\* analyzeAddress, lines 790-794
SuccessResult(address, relatedAccounts) ==
    [address |-> address, isValid |-> TRUE, relatedAccounts |-> relatedAccounts]

\* analyzeAddress, lines 803-808
ErrorResult(address, message) ==
    [address |-> address, isValid |-> TRUE, relatedAccounts |-> << >>,
     error |-> <<"Failed to analyze address: ", message>>]

\* GET, lines 865-870
InternalErrorResult ==
    [address |-> "", isValid |-> FALSE, relatedAccounts |-> << >>,
     error |-> <<"Internal server error">>]

\* GET, lines 847-852
MissingAddressResult ==
    [address |-> "", isValid |-> FALSE, relatedAccounts |-> << >>,
     error |-> <<"Address parameter is required">>]
----------------------------------------------------------------------------
(* Aggregation of the cached variant (analyzeAddress, lines 656-745)       *)
(*                                                                         *)
(* A fetched transaction is null, or a record with the fields              *)
(*   meta        null, or a record with the optional fields preBalances,   *)
(*               postBalances (lamports by account position),              *)
(*               preTokenBalances and postTokenBalances (sequences of      *)
(*               [owner, mint, amount, decimals], amount being the raw     *)
(*               amount that parseFloat reads from uiTokenAmount.amount)   *)
(*   accountKeys optional: the addresses of transaction.message.accountKeys*)
(* The aggregate is [accountVolumes, accountInteractions], two Maps.       *)
(***************************************************************************)

EmptyAggregate == [accountVolumes |-> << >>, accountInteractions |-> << >>]

\* variant: the programs and sysvars are skipped, the queried address is not
isSkippedAccountProgramsOnly(accountAddress, address) ==
    accountAddress \in {"11111111111111111111111111111111",
                        "TokenkegQfeZyiNwAJbNbGKPFXCWuBvf9Ss623VQ5DA",
                        "ComputeBudget111111111111111111111111111111",
                        "SysvarRent111111111111111111111111111111111",
                        "SysvarClock111111111111111111111111111111111"}

\* the accounts the native-unit pass skips (lines 667-672)
isSkippedAccount(accountAddress, address) ==
    \/ accountAddress = address
    \/ accountAddress = SYSTEM_PROGRAM
    \/ accountAddress = TOKEN_PROGRAM
    \/ accountAddress = COMPUTE_BUDGET
    \/ accountAddress = SYSVAR_RENT
    \/ accountAddress = SYSVAR_CLOCK

\* variant: every increment is rounded to 3 decimals before it is added
trackAccountRounded(agg, tx, k, address) ==
    LET accountAddress == tx.accountKeys[k]
        counted == [agg EXCEPT !.accountInteractions =
                       MapSet(@, accountAddress, MapGet(@, accountAddress, 0) + 1)]
        hasBalances == /\ "preBalances" \in DOMAIN tx.meta
                       /\ "postBalances" \in DOMAIN tx.meta
                       /\ k <= Len(tx.meta.preBalances)
                       /\ k <= Len(tx.meta.postBalances)
    IN  IF isSkippedAccount(accountAddress, address) THEN agg
        ELSE IF ~hasBalances THEN counted
        ELSE LET balanceChange == Abs(tx.meta.postBalances[k] - tx.meta.preBalances[k])
                 solValue == ((balanceChange \div 1000 + 500) \div 1000) * 1000
             IN  IF balanceChange > 0
                 THEN [counted EXCEPT !.accountVolumes =
                          MapSet(@, accountAddress, MapGet(@, accountAddress, 0) + solValue)]
                 ELSE counted

\* the body of the loop over accountKeys for position k (1-based here); the
\* lamports of the model are whole micro-SOL, so the division is exact
trackAccount(agg, tx, k, address) ==
    LET accountAddress == tx.accountKeys[k]
        counted == [agg EXCEPT !.accountInteractions =
                       MapSet(@, accountAddress, MapGet(@, accountAddress, 0) + 1)]
        hasBalances == /\ "preBalances" \in DOMAIN tx.meta
                       /\ "postBalances" \in DOMAIN tx.meta
                       /\ k <= Len(tx.meta.preBalances)
                       /\ k <= Len(tx.meta.postBalances)
    IN  IF isSkippedAccount(accountAddress, address) THEN agg
        ELSE IF ~hasBalances THEN counted
        ELSE LET balanceChange == Abs(tx.meta.postBalances[k] - tx.meta.preBalances[k])
                 solValue == balanceChange \div 1000
             IN  IF balanceChange > 0
                 THEN [counted EXCEPT !.accountVolumes =
                          MapSet(@, accountAddress, MapGet(@, accountAddress, 0) + solValue)]
                 ELSE counted

RECURSIVE trackAccounts(_, _, _, _)
\* for (let k = 0; k < accountKeys.length; k++); the comparison of agg has it
\* evaluated before the next iteration, as the loop does
trackAccounts(agg, tx, k, address) ==
    IF k > Len(tx.accountKeys) \/ agg = null THEN agg
    ELSE trackAccounts(trackAccount(agg, tx, k, address), tx, k + 1, address)

RECURSIVE tokenMap(_, _)
\* preTokenMap / postTokenMap: the balances keyed by `${owner}-${mint}`,
\* balances without owner or mint left out
tokenMap(balances, i) ==
    IF i > Len(balances) THEN << >>
    ELSE LET balance == balances[i]
             rest == tokenMap(balances, i + 1)
         IN  IF "owner" \in DOMAIN balance /\ "mint" \in DOMAIN balance
             THEN IF MapHas(rest, <<balance.owner, balance.mint>>)
                  THEN <<  <<  <<balance.owner, balance.mint>>,
                               MapGet(rest, <<balance.owner, balance.mint>>, null)  >>  >>
                       \o MapDelete(rest, <<balance.owner, balance.mint>>)
                  ELSE <<  <<  <<balance.owner, balance.mint>>, balance  >>  >> \o rest
             ELSE rest

\* new Set([...preTokenMap.keys(), ...postTokenMap.keys()])
allTokenKeys(preTokenMap, postTokenMap) ==
    MapKeys(preTokenMap)
    \o SelectSeq(MapKeys(postTokenMap), LAMBDA key : ~MapHas(preTokenMap, key))

\* x || y for numbers: 0 is falsy
OrElse(x, y) == IF x # 0 THEN x ELSE y

\* the body of the loop over allTokenKeys (lines 716-742)
trackToken(agg, preTokenMap, postTokenMap, tokenKey, address) ==
    LET owner == tokenKey[1]
        mint == tokenKey[2]
        hasPre == MapHas(preTokenMap, tokenKey)
        hasPost == MapHas(postTokenMap, tokenKey)
        preBalance == MapGet(preTokenMap, tokenKey, null)
        postBalance == MapGet(postTokenMap, tokenKey, null)
        preNum == IF hasPre THEN preBalance.amount ELSE 0
        postNum == IF hasPost THEN postBalance.amount ELSE 0
        decimals == OrElse(IF hasPre THEN preBalance.decimals ELSE 0,
                           OrElse(IF hasPost THEN postBalance.decimals ELSE 0, 6))
        tokenChange == Abs(postNum - preNum)
        tokenValueInSol == getTokenValueInSol(mint, tokenChange, decimals)
        counted == [agg EXCEPT !.accountInteractions =
                       MapSet(@, owner, MapGet(@, owner, 0) + 1)]
    IN  IF owner = address THEN agg
        ELSE IF tokenChange > 0
             THEN IF tokenValueInSol > 0
                  THEN [counted EXCEPT !.accountVolumes =
                           MapSet(@, owner, MapGet(@, owner, 0) + tokenValueInSol)]
                  ELSE counted
             ELSE agg

RECURSIVE trackTokens(_, _, _, _, _)
\* for (const tokenKey of allTokenKeys)
trackTokens(agg, preTokenMap, postTokenMap, keys, address) ==
    IF keys = << >> THEN agg
    ELSE trackTokens(trackToken(agg, preTokenMap, postTokenMap, Head(keys), address),
                     preTokenMap, postTokenMap, Tail(keys), address)

\* a fetched transaction the loop over transactions does not skip
isUsable(tx) ==
    /\ tx # null
    /\ tx.meta # null
    /\ "accountKeys" \in DOMAIN tx

\* the body of the loop over the transactions of a batch (lines 657-744)
processTransaction(agg, tx, address) ==
    IF ~isUsable(tx) THEN agg
    ELSE LET native == trackAccounts(agg, tx, 1, address)
         IN  IF "preTokenBalances" \in DOMAIN tx.meta /\ "postTokenBalances" \in DOMAIN tx.meta
             THEN LET preTokenMap == tokenMap(tx.meta.preTokenBalances, 1)
                      postTokenMap == tokenMap(tx.meta.postTokenBalances, 1)
                  IN  trackTokens(native, preTokenMap, postTokenMap,
                                  allTokenKeys(preTokenMap, postTokenMap), address)
             ELSE native

RECURSIVE processTransactionsUntilSkipped(_, _, _)
\* variant: a record that cannot be used ends the loop over the batch
processTransactionsUntilSkipped(agg, transactions, address) ==
    IF transactions = << >> \/ agg = null \/ ~isUsable(Head(transactions)) THEN agg
    ELSE processTransactionsUntilSkipped(processTransaction(agg, Head(transactions), address),
                                         Tail(transactions), address)

RECURSIVE processTransactions(_, _, _)
\* for (const tx of transactions); the comparison of agg has it evaluated
\* before the next iteration, as the loop does
processTransactions(agg, transactions, address) ==
    IF transactions = << >> \/ agg = null THEN agg
    ELSE processTransactions(processTransaction(agg, Head(transactions), address),
                             Tail(transactions), address)
----------------------------------------------------------------------------
(* Ranking and result of the cached variant (lines 760-794) *)

\* new Set([...accountInteractions.keys(), ...accountVolumes.keys()])
allAccounts(agg) ==
    MapKeys(agg.accountInteractions)
    \o SelectSeq(MapKeys(agg.accountVolumes),
                 LAMBDA a : ~MapHas(agg.accountInteractions, a))

\* the object the first map() builds for an account
rankedAccount(agg, accountAddress) ==
    LET volumeInSol == MapGet(agg.accountVolumes, accountAddress, 0)
    IN  [address |-> accountAddress,
         totalSolVolume |-> formatSolAmount(volumeInSol),
         volumeValue |-> volumeInSol,
         interactions |-> MapGet(agg.accountInteractions, accountAddress, 0)]

\* variant: the interaction count decides first, as in the uncached variant
rankBeforeCountFirst(a, b) ==
    IF b.interactions # a.interactions
    THEN b.interactions - a.interactions < 0
    ELSE b.volumeValue - a.volumeValue < 0

\* the comparator of the sort is negative for (a, b): a goes before b
rankBefore(a, b) ==
    IF b.volumeValue # a.volumeValue
    THEN b.volumeValue - a.volumeValue < 0
    ELSE b.interactions - a.interactions < 0

RECURSIVE InsertRanked(_, _)
InsertRanked(s, x) ==
    IF s = << >> THEN <<x>>
    ELSE IF rankBefore(x, Head(s)) THEN <<x>> \o s
    ELSE <<Head(s)>> \o InsertRanked(Tail(s), x)

RECURSIVE SortRanked(_)
\* Array.prototype.sort with the comparator above, a stable sort
SortRanked(s) ==
    IF s = << >> THEN << >>
    ELSE InsertRanked(SortRanked(SubSeq(s, 1, Len(s) - 1)), s[Len(s)])

\* relatedAccounts of the success result
relatedAccountsOf(agg) ==
    LET accounts == allAccounts(agg)
        ranked == SortRanked([i \in 1..Len(accounts) |-> rankedAccount(agg, accounts[i])])
    IN  [i \in 1..Len(ranked) |->
            [address |-> ranked[i].address, totalSolVolume |-> ranked[i].totalSolVolume]]
----------------------------------------------------------------------------
(* Fetch policy of the cached variant (lines 613-626, 642, 752) *)

\* rpcUrl = process.env.HELIUS_RPC_URL || FALLBACK_RPCS[0]
rpcUrlOf(envUrl) == IF envUrl # "" THEN envUrl ELSE FALLBACK_RPCS[1]

batchSizeOf(isHelius) == IF isHelius THEN 3 ELSE 5
\* variant: every signature listed is fetched
maxTransactionsOfUncapped(signatures, isHelius) == signatures
maxTransactionsOf(signatures, isHelius) == Min(signatures, IF isHelius THEN 15 ELSE 25)
\* variant: one delay for every provider
delayMsOfFlat(isHelius) == 1000
delayMsOf(isHelius) == IF isHelius THEN 2000 ELSE 1000
backoffMsOf(isHelius) == IF isHelius THEN 5000 ELSE 3000
requestGapMs == 300

\* signatures.slice(i, i + batchSize).length
batchLength(signatures, i, batchSize) == Min(batchSize, signatures - i)

----------------------------------------------------------------------------
(* State *)

VARIABLES
    analysisCache,   \* the Map of the cached variant: <<key, CacheEntry>> pairs
    now,             \* Date.now(), in minutes
    HELIUS_RPC_URL,  \* process.env.HELIUS_RPC_URL
    run,             \* the requests of the cached variant, by slot
    lastGet,         \* cache-only specification: what getCachedAnalysis returned,
                     \* when it was the last cache function called
    putLog,          \* cache-only specification: the addresses inserted so far
    uncached,        \* the request of the uncached variant
    call             \* helper specifications: the last call of a pure helper

vars == <<analysisCache, now, HELIUS_RPC_URL, run, lastGet, putLog, uncached, call>>

\* request slots; the orchestrator specification serves one request at a time
Runs == {1, 2}
SequentialRuns == {1}

\* a slot no request has used yet
IdleRun ==
    [pc |-> "idle", address |-> "", signatures |-> 0, i |-> 0,
     transactions |-> << >>, agg |-> EmptyAggregate,
     result |-> null, outcome |-> "none",
     upstream |-> 0, attempts |-> 0, requested |-> 0, fetched |-> 0,
     batchErrors |-> 0, waitMs |-> 0, doneAt |-> 0, backoffs |-> << >>]

\* upstream, attempts, requested, fetched and batchErrors count the upstream
\* requests issued, the passes of the batch loop that reached the retrieval,
\* the record bodies asked for, the record bodies received and the failed
\* record requests of the request;
\* backoffs lists the waits after the latest batches, while every one of
\* them was rate limited

\* the uncached variant before its first request
IdleUncached ==
    [pc |-> "idle", address |-> "", rpcUrl |-> "", signatures |-> << >>,
     actualTotalTransactions |-> 0, i |-> 0, transactions |-> << >>,
     relatedAccountsMap |-> << >>, debugInfo |-> null,
     result |-> null, status |-> 0]

\* no pure helper was called yet
NoCall == [fn |-> "none"]

\* the last cache call was not getCachedAnalysis
NoGet == [address |-> "", data |-> null]

Init ==
    /\ analysisCache = << >>
    /\ now = 0
    /\ HELIUS_RPC_URL \in EnvUrls
    /\ run = [r \in Runs |-> IdleRun]
    /\ lastGet = NoGet
    /\ putLog = << >>
    /\ uncached = IdleUncached
    /\ call = NoCall

isHelius == includesHelius(rpcUrlOf(HELIUS_RPC_URL))

----------------------------------------------------------------------------
(* Steps of analyzeAddress (cached variant); each operator maps the request *)
(* record rr, the store and the time to the record and the store after it   *)

\* variant: the payload for an invalid address is stored like an error result
returnedStoringInvalid(rr, cache, result, outcome, t) ==
    [run |-> [rr EXCEPT !.pc = "done", !.result = result, !.outcome = outcome,
                        !.waitMs = 0, !.doneAt = t],
     cache |-> IF outcome = "invalid"
               THEN MapSet(cache, <<"analysis:", rr.address>>,
                           [data |-> result, timestamp |-> t, ttl |-> 1])
               ELSE cache]

\* return of a payload to the caller of GET
returned(rr, cache, result, outcome, t) ==
    [run |-> [rr EXCEPT !.pc = "done", !.result = result, !.outcome = outcome,
                        !.waitMs = 0, !.doneAt = t],
     cache |-> cache]

\* the next upstream request for record bodies is issued (lines 631-654)
requestBatch(rr, cache) ==
    [run |-> [rr EXCEPT !.pc = IF isHelius THEN "fetchOne" ELSE "fetchBatch",
                        !.transactions = << >>, !.waitMs = 0,
                        !.upstream = @ + 1, !.attempts = @ + 1,
                        !.requested = @ + (IF isHelius THEN 1
                                           ELSE batchLength(rr.signatures, rr.i,
                                                            batchSizeOf(isHelius)))],
     cache |-> cache]

\* variant: the result is stored on top of what the store holds for the address
finishMerging(rr, cache, t) ==
    LET result == SuccessResult(rr.address, relatedAccountsOf(rr.agg))
        entry == MapGet(cache, getCacheKey(rr.address), null)
        merged == IF entry = null THEN result
                  ELSE SuccessResult(rr.address,
                                     entry.data.relatedAccounts \o result.relatedAccounts)
    IN  returned(rr, setCachedAnalysis(cache, rr.address, merged, t),
                 result, "success", t)

\* the end of the loop: ranking, result, setCachedAnalysis (lines 760-799)
finish(rr, cache, t) ==
    LET result == SuccessResult(rr.address, relatedAccountsOf(rr.agg))
    IN  returned(rr, setCachedAnalysis(cache, rr.address, result, t),
                 result, "success", t)

\* variant: the next batch is requested without the delay
nextBatchNoDelay(rr, cache, t) ==
    LET i == rr.i + (IF isHelius THEN 3 ELSE 5)
    IN  IF i < Min(rr.signatures, IF isHelius THEN 15 ELSE 25)
        THEN [run |-> [rr EXCEPT !.i = i, !.transactions = << >>, !.waitMs = 0,
                                 !.pc = IF isHelius THEN "fetchOne" ELSE "fetchBatch",
                                 !.upstream = @ + 1, !.attempts = @ + 1,
                                 !.requested = @ + (IF isHelius THEN 1
                                                    ELSE Min(5, rr.signatures - i))],
              cache |-> cache]
        ELSE finish([rr EXCEPT !.i = i, !.transactions = << >>], cache, t)

\* i += batchSize and the loop test; the delay that starts the next pass
nextBatch(rr, cache, t) ==
    LET i == rr.i + batchSizeOf(isHelius)
    IN  IF i < maxTransactionsOf(rr.signatures, isHelius)
        THEN [run |-> [rr EXCEPT !.i = i, !.pc = "delay", !.transactions = << >>,
                                 !.waitMs = delayMsOf(isHelius)],
              cache |-> cache]
        ELSE finish([rr EXCEPT !.i = i, !.transactions = << >>], cache, t)

\* the loop over the fetched transactions of the batch, then the next pass
processBatch(rr, cache, transactions, t) ==
    nextBatch([rr EXCEPT !.agg = processTransactions(@, transactions, rr.address),
                         !.backoffs = << >>],
              cache, t)

\* variant: the batch loop has no catch block, the error ends the request
onBatchErrorRethrow(rr, cache, errorMessage, t) ==
    returned(rr, cacheErrorResult(cache, rr.address,
                                  ErrorResult(rr.address, errorMessage), t),
             ErrorResult(rr.address, errorMessage), "failure", t)

\* variant: the batch that failed first is requested once more
onBatchErrorRetry(rr, cache, errorMessage, t) ==
    IF rr.batchErrors = 0
    THEN [run |-> [rr EXCEPT !.batchErrors = @ + 1, !.upstream = @ + 1,
                             !.attempts = @ + 1, !.transactions = << >>],
          cache |-> cache]
    ELSE nextBatch([rr EXCEPT !.batchErrors = @ + 1, !.backoffs = << >>], cache, t)

\* the catch block of the batch loop (lines 746-757)
onBatchError(rr, cache, errorMessage, t) ==
    LET failed == [rr EXCEPT !.batchErrors = @ + 1]
    IN  IF isRateLimited(errorMessage)
        THEN [run |-> [failed EXCEPT !.pc = "backoff", !.waitMs = backoffMsOf(isHelius),
                                     !.backoffs = Append(@, backoffMsOf(isHelius))],
              cache |-> cache]
        ELSE nextBatch([failed EXCEPT !.backoffs = << >>], cache, t)

\* individual requests: the next signature of the batch, or the processing
nextIndividual(rr, cache, t) ==
    IF Len(rr.transactions) < batchLength(rr.signatures, rr.i, batchSizeOf(isHelius))
    THEN [run |-> [rr EXCEPT !.pc = "fetchOne", !.waitMs = 0, !.upstream = @ + 1,
                             !.requested = @ + 1],
          cache |-> cache]
    ELSE processBatch(rr, cache, rr.transactions, t)

\* variant: the error result is stored like a success result
onRunErrorLongTtl(rr, cache, errorMessage, t) ==
    returned(rr, setCachedAnalysis(cache, rr.address,
                                   ErrorResult(rr.address, errorMessage), t),
             ErrorResult(rr.address, errorMessage), "failure", t)

\* the catch block of analyzeAddress (lines 801-821)
onRunError(rr, cache, errorMessage, t) ==
    LET errorResult == ErrorResult(rr.address, errorMessage)
    IN  returned(rr, cacheErrorResult(cache, rr.address, errorResult, t),
                 errorResult, "failure", t)

\* key.replace('analysis:', '')
addressOfKey(key) == key[2]

\* the cacheStats object of GET (lines 832-842); the times of the model are
\* whole minutes, which Math.round leaves as they are
cacheStatsOf(cache, t) ==
    [totalEntries |-> Len(cache),
     maxSize |-> MAX_CACHE_SIZE,
     ttlMinutes |-> CACHE_TTL,
     entries |-> [i \in 1..Len(cache) |->
                    [address |-> addressOfKey(cache[i][1]),
                     ageMinutes |-> t - cache[i][2].timestamp,
                     expiresInMinutes |-> cache[i][2].ttl - (t - cache[i][2].timestamp)]]]

\* variant: the statistics are taken after a cleanup pass
onCacheStatsCleaning(rr, cache, t) ==
    returned(IdleRun, cleanupCache(cache, t),
             cacheStatsOf(cleanupCache(cache, t), t), "stats", t)

\* GET with cache=stats (lines 831-844)
onCacheStats(rr, cache, t) ==
    returned(IdleRun, cache, cacheStatsOf(cache, t), "stats", t)

\* variant: the cache is consulted before the address is validated
startRequestCacheFirst(rr, cache, address, urlOk, t) ==
    LET fresh == [IdleRun EXCEPT !.address = address]
        cached == getCachedAnalysis(cache, address, t)
    IN  IF ~urlOk
        THEN returned([fresh EXCEPT !.address = ""], cache, InternalErrorResult, "internal", t)
        ELSE IF address = ""
        THEN returned(fresh, cache, MissingAddressResult, "missing", t)
        ELSE IF cached.data # null
        THEN returned(fresh, cached.cache, cached.data, "hit", t)
        ELSE IF ~isValidSolanaAddress(address)
        THEN returned(fresh, cached.cache, InvalidResult(address), "invalid", t)
        ELSE [run |-> [fresh EXCEPT !.pc = "listing", !.upstream = 1],
              cache |-> cached.cache]

\* GET and analyzeAddress up to the listing call (lines 824-861, 573-599)
startRequest(rr, cache, address, urlOk, t) ==
    LET fresh == [IdleRun EXCEPT !.address = address]
        cached == getCachedAnalysis(cache, address, t)
    IN  IF ~urlOk
        THEN returned([fresh EXCEPT !.address = ""], cache, InternalErrorResult, "internal", t)
        ELSE IF address = ""
        THEN returned(fresh, cache, MissingAddressResult, "missing", t)
        ELSE IF ~isValidSolanaAddress(address)
        THEN returned(fresh, cache, InvalidResult(address), "invalid", t)
        ELSE IF cached.data # null
        THEN returned(fresh, cached.cache, cached.data, "hit", t)
        ELSE [run |-> [fresh EXCEPT !.pc = "listing", !.upstream = 1],
              cache |-> cached.cache]

\* the listing call returned `signatures` signatures (lines 599-620)
onSignatures(rr, cache, signatures, t) ==
    IF signatures = 0
    THEN returned(rr, cache, EmptyResult(rr.address), "empty", t)
    ELSE requestBatch([rr EXCEPT !.signatures = signatures, !.i = 0,
                                 !.agg = EmptyAggregate], cache)
----------------------------------------------------------------------------
(* Transactions the provider returns in the orchestrator specification *)

\* `address` pays 2 SOL to X; the system program takes part
TxPay(address) ==
    [meta |-> [preBalances |-> <<2000005000, 0, 1>>,
               postBalances |-> <<0, 2000000000, 1>>,
               preTokenBalances |-> << >>, postTokenBalances |-> << >>],
     accountKeys |-> <<address, "X", SYSTEM_PROGRAM>>]

\* Y receives 375 USDC (1.5 SOL) and pays a fee of 0.000005 SOL
TxToken(address) ==
    [meta |-> [preBalances |-> <<10000, 5000>>,
               postBalances |-> <<10000, 0>>,
               preTokenBalances |-> <<[owner |-> address, mint |-> USDC, amount |-> 37500, decimals |-> 2]>>,
               postTokenBalances |-> <<[owner |-> "Y", mint |-> USDC, amount |-> 37500, decimals |-> 2]>>],
     accountKeys |-> <<address, "Y">>]

\* X receives 2.001 SOL and Y 2.004 SOL
TxSplit(address) ==
    [meta |-> [preBalances |-> <<2004005000, 0, 0>>,
               postBalances |-> <<0, 2001000000, 2004000000>>],
     accountKeys |-> <<address, "X", "Y">>]

\* Y and X receive 1 SOL each
TxEven(address) ==
    [meta |-> [preBalances |-> <<2000005000, 0, 0>>,
               postBalances |-> <<5000, 1000000000, 1000000000>>],
     accountKeys |-> <<address, "Y", "X">>]

\* X takes part and its balance does not change
TxIdle(address) ==
    [meta |-> [preBalances |-> <<10000, 70000>>,
               postBalances |-> <<5000, 70000>>],
     accountKeys |-> <<address, "X">>]

\* the counterparties of a transaction with many accounts
WideAccounts ==
    <<"W01", "W02", "W03", "W04", "W05", "W06", "W07", "W08", "W09", "W10",
      "W11", "W12", "W13", "W14", "W15", "W16", "W17", "W18", "W19", "W20",
      "W21", "W22", "W23", "W24", "W25", "W26">>

\* `address` pays 26 accounts in one transaction, the k-th of them k * 0.001 SOL
TxWide(address) ==
    [meta |-> [preBalances |-> <<351005000>> \o [k \in 1..Len(WideAccounts) |-> 0],
               postBalances |-> <<0>> \o [k \in 1..Len(WideAccounts) |-> k * 1000000]],
     accountKeys |-> <<address>> \o WideAccounts]

\* the system program receives 0.000005 SOL; no other account takes part
TxSystemOnly(address) ==
    [meta |-> [preBalances |-> <<10000, 1>>,
               postBalances |-> <<10000, 5001>>],
     accountKeys |-> <<address, SYSTEM_PROGRAM>>]

\* the system program receives 0.000005 SOL; X takes part, its balance
\* does not change
TxSystemFee(address) ==
    [meta |-> [preBalances |-> <<10000, 1, 70000>>,
               postBalances |-> <<10000, 5001, 70000>>,
               preTokenBalances |-> << >>, postTokenBalances |-> << >>],
     accountKeys |-> <<address, SYSTEM_PROGRAM, "X">>]

\* the rent sysvar changes by one lamport; Y and X take part, their balances
\* and token balances do not change
TxRent(address) ==
    [meta |-> [preBalances |-> <<10000, 80000, 1, 70000>>,
               postBalances |-> <<10000, 80000, 2, 70000>>,
               preTokenBalances |-> <<[owner |-> "Y", mint |-> USDC, amount |-> 500, decimals |-> 2]>>,
               postTokenBalances |-> <<[owner |-> "Y", mint |-> USDC, amount |-> 500, decimals |-> 2]>>],
     accountKeys |-> <<address, "Y", SYSVAR_RENT, "X">>]

\* 250 USDC (1 SOL) go from `address` to a token balance whose owner is the
\* token program, which is an account of the record as well
TxProgramOwner(address) ==
    [meta |-> [preBalances |-> <<10000, 1>>,
               postBalances |-> <<5000, 1>>,
               preTokenBalances |-> <<[owner |-> address, mint |-> USDC, amount |-> 25000, decimals |-> 2]>>,
               postTokenBalances |-> <<[owner |-> TOKEN_PROGRAM, mint |-> USDC, amount |-> 25000, decimals |-> 2]>>],
     accountKeys |-> <<address, TOKEN_PROGRAM>>]

\* a record body without meta, which the loop over the transactions skips
TxNoMeta == [meta |-> null]

\* the transactions in which only an excluded account has a balance change
ExcludedOnly(address) == {TxSystemOnly(address), TxSystemFee(address), TxRent(address)}

\* the transactions the ledger may hold for an address
TxShapes(address) ==
    IF address = "A2"
    THEN {TxSplit(address), TxEven(address), TxIdle(address)}
    ELSE IF address = "A3"
    THEN {TxWide(address)}
    ELSE IF address = "A4"
    THEN ExcludedOnly(address)
    ELSE IF address = "A5"
    THEN {TxIdle(address)}
    ELSE IF address = "A6"
    THEN {TxNoMeta}
    ELSE IF address = "A7"
    THEN {TxProgramOwner(address)}
    ELSE IF address = "A8"
    THEN {TxPay(address), TxNoMeta}
    ELSE {TxPay(address), TxToken(address)}

----------------------------------------------------------------------------
(* Actions of the orchestrator specification *)

\* the step `out` of request r is taken
Step(r, out) ==
    /\ run' = [run EXCEPT ![r] = out.run]
    /\ analysisCache' = out.cache
    /\ UNCHANGED <<now, HELIUS_RPC_URL, lastGet, putLog, uncached, call>>

\* a request arrives: GET, validation, cache lookup, listing call issued
Start(r, address, urlOk) ==
    /\ run[r].pc \in {"idle", "done"}
    /\ Step(r, startRequest(run[r], analysisCache, address, urlOk, now))

\* a request for the cache statistics arrives and is answered
CacheStats(r) ==
    /\ run[r].pc \in {"idle", "done"}
    /\ Step(r, onCacheStats(run[r], analysisCache, now))

\* getSignaturesForAddress returns
ListingReturns(r, signatures) ==
    /\ run[r].pc = "listing"
    /\ Step(r, onSignatures(run[r], analysisCache, signatures, now))

\* getSignaturesForAddress throws
ListingFails(r, errorMessage) ==
    /\ run[r].pc = "listing"
    /\ Step(r, onRunError(run[r], analysisCache, errorMessage, now))

\* number of record bodies among the entries of a response
received(transactions) == Len(SelectSeq(transactions, LAMBDA tx : tx # null))

\* what a request for one record body may return
Fetched(address) == TxShapes(address) \cup {null}

\* what a batch request of the request in slot r may return
FetchedBatch(r) ==
    [1..batchLength(run[r].signatures, run[r].i, batchSizeOf(isHelius))
        -> Fetched(run[r].address)]

\* getParsedTransaction returns a transaction or null; the 300 ms pause starts
FetchOneReturns(r) ==
    /\ run[r].pc = "fetchOne"
    /\ \E tx \in Fetched(run[r].address) :
       Step(r, [run |-> [run[r] EXCEPT !.transactions = Append(@, tx),
                                       !.fetched = @ + received(<<tx>>),
                                       !.pc = "gap", !.waitMs = requestGapMs],
                cache |-> analysisCache])

\* getParsedTransaction throws: null is pushed, no pause
FetchOneFails(r, errorMessage) ==
    /\ run[r].pc = "fetchOne"
    /\ Step(r, nextIndividual([run[r] EXCEPT !.transactions = Append(@, null),
                                             !.batchErrors = @ + 1],
                              analysisCache, now))

\* the pause between individual requests is over
GapElapsed(r) ==
    /\ run[r].pc = "gap"
    /\ Step(r, nextIndividual(run[r], analysisCache, now))

\* getParsedTransactions returns one entry per signature of the batch
FetchBatchReturns(r) ==
    /\ run[r].pc = "fetchBatch"
    /\ \E transactions \in FetchedBatch(r) :
       Step(r, processBatch([run[r] EXCEPT !.fetched = @ + received(transactions)],
                            analysisCache, transactions, now))

\* getParsedTransactions throws
FetchBatchFails(r, errorMessage) ==
    /\ run[r].pc = "fetchBatch"
    /\ Step(r, onBatchError(run[r], analysisCache, errorMessage, now))

\* the backoff after a rate-limit error is over: continue
BackoffElapsed(r) ==
    /\ run[r].pc = "backoff"
    /\ Step(r, nextBatch(run[r], analysisCache, now))

\* the delay before a batch is over: the batch is requested
DelayElapsed(r) ==
    /\ run[r].pc = "delay"
    /\ Step(r, requestBatch(run[r], analysisCache))

\* a minute passes
Tick ==
    /\ now < MaxNow
    /\ now' = now + 1
    /\ UNCHANGED <<analysisCache, HELIUS_RPC_URL, run, lastGet, putLog, uncached, call>>

Next ==
    \/ \E r \in SequentialRuns, address \in RequestAddresses, urlOk \in BOOLEAN :
           Start(r, address, urlOk)
    \/ \E r \in SequentialRuns : CacheStats(r)
    \/ \E r \in SequentialRuns, signatures \in 0..MaxSigs : ListingReturns(r, signatures)
    \/ \E r \in SequentialRuns, errorMessage \in ErrorMessages : ListingFails(r, errorMessage)
    \/ \E r \in SequentialRuns : FetchOneReturns(r)
    \/ \E r \in SequentialRuns, errorMessage \in ErrorMessages : FetchOneFails(r, errorMessage)
    \/ \E r \in SequentialRuns : GapElapsed(r)
    \/ \E r \in SequentialRuns : FetchBatchReturns(r)
    \/ \E r \in SequentialRuns, errorMessage \in ErrorMessages : FetchBatchFails(r, errorMessage)
    \/ \E r \in SequentialRuns : BackoffElapsed(r)
    \/ \E r \in SequentialRuns : DelayElapsed(r)
    \/ Tick

Spec == Init /\ [][Next]_vars
----------------------------------------------------------------------------
(* The uncached variant (lines 1-416)                                      *)
(*                                                                         *)
(* Its amounts are lamports. A signature of the listing is its blockTime,  *)
(* 0 when the provider gives none. lastInteraction is [known, time]: the   *)
(* ISO text of a blockTime, or 'Unknown'.                                  *)
(***************************************************************************)

\* Number.prototype.toFixed on lamports / 1e9
toFixedLamports(lamports, places) ==
    LET step == Pow10(9 - places)
    IN  (lamports + step \div 2) \div step

\* formatSolAmount of the uncached variant (lines 47-57)
formatSolAmountUncached(lamports) ==
    IF lamports = 0 THEN <<0, 0, " SOL">>
    ELSE IF lamports < 1000 THEN <<"<", 1, 6, " SOL">>
    ELSE IF lamports < 1000000 THEN <<toFixedLamports(lamports, 6), 6, " SOL">>
    ELSE IF lamports < 1000000000 THEN <<toFixedLamports(lamports, 3), 3, " SOL">>
    ELSE IF lamports \div 1000 < 1000000000 THEN <<toFixedLamports(lamports, 2), 2, " SOL">>
    ELSE <<toFixedLamports(lamports, 0), 0, " SOL">>

Unknown == [known |-> FALSE, time |-> 0]
\* new Date(blockTime * 1000).toISOString()
toISOString(blockTime) == [known |-> TRUE, time |-> blockTime]
\* currentTime > lastInteraction on the texts: no ISO text is above 'Unknown'
textGreater(a, b) == a.known /\ b.known /\ a.time > b.time

\* analyzeAddress, lines 61-65
InvalidResultUncached(address) ==
    [address |-> address, isValid |-> FALSE,
     error |-> <<"Invalid Solana address format">>]

\* analyzeAddress, lines 384-388
ErrorResultUncached(address, message) ==
    [address |-> address, isValid |-> TRUE,
     error |-> <<"Failed to analyze address: ", message>>]

\* GET, lines 398-402
MissingAddressResultUncached ==
    [address |-> "", isValid |-> FALSE, error |-> <<"Address parameter is required">>]

\* GET, lines 410-414
InternalErrorResultUncached ==
    [address |-> "", isValid |-> FALSE, error |-> <<"Internal server error">>]

\* debugInfo, lines 130-138
newDebugInfo(rpcUrl) ==
    [processedTxs |-> 0, totalAccounts |-> 0, filteredAccounts |-> 0,
     errors |-> << >>, balanceChanges |-> 0, tokenChanges |-> 0, rpcUsed |-> rpcUrl]

\* the entry relatedAccountsMap gets for a new account (lines 228-236, 308-316)
newRelatedAccount(accountAddress, blockTime) ==
    [address |-> accountAddress,
     transactionCount |-> 0,
     lastInteraction |-> IF blockTime # 0 THEN toISOString(blockTime) ELSE Unknown,
     transactionTypes |-> << >>,
     totalSolFlowLamports |-> 0,
     totalSolFlow |-> <<0, 0, " SOL">>,
     totalTokenInteractions |-> 0]

\* variant: lastInteraction is the time of the record seen last
updateLastInteractionLastSeen(relatedAccount, blockTime) ==
    IF blockTime # 0
    THEN [relatedAccount EXCEPT !.lastInteraction = toISOString(blockTime)]
    ELSE relatedAccount

\* the update of lastInteraction (lines 245-250, 324-329)
updateLastInteraction(relatedAccount, blockTime) ==
    IF blockTime # 0
       /\ (\/ textGreater(toISOString(blockTime), relatedAccount.lastInteraction)
           \/ relatedAccount.lastInteraction = Unknown)
    THEN [relatedAccount EXCEPT !.lastInteraction = toISOString(blockTime)]
    ELSE relatedAccount

\* variant: the label is pushed for every record
addTypeAlways(relatedAccount, label) ==
    [relatedAccount EXCEPT !.transactionTypes = Append(@, label)]

\* transactionTypes.push(label) unless the list includes it
addType(relatedAccount, label) ==
    IF label \in Range(relatedAccount.transactionTypes) THEN relatedAccount
    ELSE [relatedAccount EXCEPT !.transactionTypes = Append(@, label)]

\* the accounts Method 1 skips (lines 210-213)
isSkippedAccountUncached(accountAddress, address) ==
    \/ accountAddress = address
    \/ accountAddress = SYSTEM_PROGRAM
    \/ accountAddress = TOKEN_PROGRAM
    \/ accountAddress = COMPUTE_BUDGET

\* array[k] || 0, k counted from 1
balanceAt(balances, k) == IF k <= Len(balances) THEN balances[k] ELSE 0

\* Method 1 for account position k (lines 206-264); st is
\* [relatedAccountsMap, debugInfo]
solChange(st, tx, blockTime, k, address) ==
    LET accountAddress == tx.accountKeys[k]
        balanceChange == balanceAt(tx.meta.postBalances, k) - balanceAt(tx.meta.preBalances, k)
        existing == IF MapHas(st.relatedAccountsMap, accountAddress)
                    THEN MapGet(st.relatedAccountsMap, accountAddress, null)
                    ELSE newRelatedAccount(accountAddress, blockTime)
        counted == [existing EXCEPT !.transactionCount = @ + 1,
                                   !.totalSolFlowLamports = @ + Abs(balanceChange)]
        dated == updateLastInteraction(counted, blockTime)
        typed == addType(dated, IF balanceChange > 0 THEN "SOL Inflow" ELSE "SOL Outflow")
    IN  IF isSkippedAccountUncached(accountAddress, address)
        THEN [st EXCEPT !.debugInfo.filteredAccounts = @ + 1]
        ELSE IF balanceChange # 0
        THEN [relatedAccountsMap |-> MapSet(st.relatedAccountsMap, accountAddress, typed),
              debugInfo |-> [st.debugInfo EXCEPT !.balanceChanges = @ + 1,
                                                 !.totalAccounts = @ + 1]]
        ELSE st

RECURSIVE solChanges(_, _, _, _, _)
\* for (let k = 0; k < accountKeys.length; k++); the comparison of st has it
\* evaluated before the next iteration, as the loop does
solChanges(st, tx, blockTime, k, address) ==
    IF k > Len(tx.accountKeys) \/ st = null THEN st
    ELSE solChanges(solChange(st, tx, blockTime, k, address), tx, blockTime, k + 1, address)

\* preAmount !== postAmount on uiTokenAmount.uiAmount = amount / 10^decimals,
\* an absent side counting 0
uiAmountDiffers(hasPre, preBalance, hasPost, postBalance) ==
    LET preAmount == IF hasPre THEN preBalance.amount ELSE 0
        preDecimals == IF hasPre THEN preBalance.decimals ELSE 0
        postAmount == IF hasPost THEN postBalance.amount ELSE 0
        postDecimals == IF hasPost THEN postBalance.decimals ELSE 0
    IN  preAmount * Pow10(postDecimals) # postAmount * Pow10(preDecimals)

\* Method 2 for one token key (lines 293-336)
tokenChange(st, preTokenMap, postTokenMap, tokenKey, blockTime, address) ==
    LET owner == tokenKey[1]
        differs == uiAmountDiffers(MapHas(preTokenMap, tokenKey),
                                   MapGet(preTokenMap, tokenKey, null),
                                   MapHas(postTokenMap, tokenKey),
                                   MapGet(postTokenMap, tokenKey, null))
        existing == IF MapHas(st.relatedAccountsMap, owner)
                    THEN MapGet(st.relatedAccountsMap, owner, null)
                    ELSE newRelatedAccount(owner, blockTime)
        counted == [existing EXCEPT !.transactionCount = @ + 1,
                                   !.totalTokenInteractions = @ + 1]
        typed == addType(updateLastInteraction(counted, blockTime), "Token Transfer")
    IN  IF owner = address THEN st
        ELSE IF differs
        THEN [relatedAccountsMap |-> MapSet(st.relatedAccountsMap, owner, typed),
              debugInfo |-> [st.debugInfo EXCEPT !.tokenChanges = @ + 1,
                                                 !.totalAccounts = @ + 1]]
        ELSE st

RECURSIVE tokenChanges(_, _, _, _, _, _)
\* for (const tokenKey of allTokenKeys)
tokenChanges(st, preTokenMap, postTokenMap, keys, blockTime, address) ==
    IF keys = << >> THEN st
    ELSE tokenChanges(tokenChange(st, preTokenMap, postTokenMap, Head(keys), blockTime, address),
                      preTokenMap, postTokenMap, Tail(keys), blockTime, address)

\* the body of the loop over the transactions of a batch (lines 190-338)
processTransactionUncached(st, tx, blockTime, address) ==
    IF tx = null \/ tx.meta = null THEN st
    ELSE LET started == [st EXCEPT !.debugInfo.processedTxs = @ + 1]
             method1 ==
                 IF /\ "preBalances" \in DOMAIN tx.meta
                    /\ "postBalances" \in DOMAIN tx.meta
                    /\ "accountKeys" \in DOMAIN tx
                 THEN solChanges(started, tx, blockTime, 1, address)
                 ELSE started
         IN  IF "preTokenBalances" \in DOMAIN tx.meta /\ "postTokenBalances" \in DOMAIN tx.meta
             THEN LET preTokenMap == tokenMap(tx.meta.preTokenBalances, 1)
                      postTokenMap == tokenMap(tx.meta.postTokenBalances, 1)
                  IN  tokenChanges(method1, preTokenMap, postTokenMap,
                                   allTokenKeys(preTokenMap, postTokenMap),
                                   blockTime, address)
             ELSE method1

\* the comparator of the sort (lines 354-361) is negative for (a, b)
countBefore(a, b) ==
    IF b.transactionCount # a.transactionCount
    THEN b.transactionCount - a.transactionCount < 0
    ELSE b.totalSolFlowLamports - a.totalSolFlowLamports < 0

RECURSIVE InsertCounted(_, _)
InsertCounted(s, x) ==
    IF s = << >> THEN <<x>>
    ELSE IF countBefore(x, Head(s)) THEN <<x>> \o s
    ELSE <<Head(s)>> \o InsertCounted(Tail(s), x)

RECURSIVE SortCounted(_)
\* Array.prototype.sort with the comparator above, a stable sort
SortCounted(s) ==
    IF s = << >> THEN << >>
    ELSE InsertCounted(SortCounted(SubSeq(s, 1, Len(s) - 1)), s[Len(s)])

\* the number of accounts the result keeps
topAccounts == 25

\* relatedAccounts of the result (lines 353-369)
relatedAccountsUncached(relatedAccountsMap) ==
    LET sorted == SortCounted([i \in 1..Len(relatedAccountsMap) |-> relatedAccountsMap[i][2]])
        top == SubSeq(sorted, 1, Min(topAccounts, Len(sorted)))
    IN  [i \in 1..Len(top) |->
            [address |-> top[i].address,
             transactionCount |-> top[i].transactionCount,
             lastInteraction |-> top[i].lastInteraction,
             transactionTypes |-> top[i].transactionTypes,
             totalSolFlow |-> formatSolAmountUncached(top[i].totalSolFlowLamports),
             totalTokenInteractions |-> top[i].totalTokenInteractions]]

----------------------------------------------------------------------------
(* Steps and actions of the uncached variant; each step maps the request   *)
(* record u to the record after it                                         *)

\* longest listing the provider returns, short of the listing limit
MaxListed == 2

\* getSignaturesForAddress(publicKey, { limit: 50 })
listingLimit == 50
\* getSignaturesForAddress(publicKey, { limit: 1000 })
estimateLimit == 1000

\* the blockTime of a signature: none, or one of two instants
BlockTimes == {0, 10, 20}

\* the listings the provider may return: short ones, and a full page
Listings ==
    UNION {[1..n -> BlockTimes] : n \in 0..MaxListed}
    \cup {[n \in 1..listingLimit |-> 10]}

\* the lengths of the longer listing asked for after a full page
EstimateLengths == {120, estimateLimit}

\* `address` pays 0.1 SOL to X; the system program takes part
TxTip(address) ==
    [meta |-> [preBalances |-> <<100005000, 0, 1>>,
               postBalances |-> <<0, 100000000, 1>>,
               preTokenBalances |-> << >>, postTokenBalances |-> << >>],
     accountKeys |-> <<address, "X", SYSTEM_PROGRAM>>]

\* what a transaction request of the uncached variant may return; the
\* lamports of a request of 15 transactions stay below 2^31
FetchedUncached(address) == {TxTip(address), TxToken(address), null}

isHeliusUncached(u) == includesHelius(u.rpcUrl)

\* Math.min(signatures.length, isHelius ? 15 : 8)
processedTransactionsOf(u) ==
    Min(Len(u.signatures), IF isHeliusUncached(u) THEN 15 ELSE 8)

\* NextResponse.json(result) or NextResponse.json(result, { status })
respond(u, result, status) ==
    [u EXCEPT !.pc = "done", !.result = result, !.status = status]

\* the transaction request for position i is issued (lines 160-185)
requestUncached(u) ==
    [u EXCEPT !.transactions = << >>,
              !.pc = IF isHeliusUncached(u) THEN "fetchOne" ELSE "fetchBatch"]

\* the result after the loop (lines 353-380)
finishUncached(u) ==
    LET relatedAccounts == relatedAccountsUncached(u.relatedAccountsMap)
    IN  respond(u,
                [address |-> u.address,
                 isValid |-> TRUE,
                 totalTransactions |-> u.actualTotalTransactions,
                 sampledTransactions |-> u.debugInfo.processedTxs,
                 relatedAccounts |-> relatedAccounts,
                 debug |-> [processedTxs |-> u.debugInfo.processedTxs,
                            totalAccounts |-> u.debugInfo.totalAccounts,
                            filteredAccounts |-> u.debugInfo.filteredAccounts,
                            errors |-> u.debugInfo.errors,
                            balanceChanges |-> u.debugInfo.balanceChanges,
                            tokenChanges |-> u.debugInfo.tokenChanges,
                            rpcUsed |-> u.debugInfo.rpcUsed,
                            finalAccountCount |-> Len(relatedAccounts)]],
                200)

\* i += batchSize and the loop test; the delay precedes every batch but the first
nextUncached(u) ==
    IF u.i + 1 < processedTransactionsOf(u)
    THEN [u EXCEPT !.i = @ + 1, !.pc = "delay"]
    ELSE finishUncached(u)

\* the transactions of the batch are processed (lines 189-339)
processUncached(u) ==
    LET st == processTransactionUncached(
                  [relatedAccountsMap |-> u.relatedAccountsMap, debugInfo |-> u.debugInfo],
                  u.transactions[1], u.signatures[u.i + 1], u.address)
    IN  nextUncached([u EXCEPT !.relatedAccountsMap = st.relatedAccountsMap,
                               !.debugInfo = st.debugInfo])

\* after the listing and the estimate (lines 118-147)
afterListing(u) ==
    IF Len(u.signatures) = 0
    THEN respond(u, [address |-> u.address, isValid |-> TRUE,
                     totalTransactions |-> u.actualTotalTransactions,
                     sampledTransactions |-> 0,
                     relatedAccounts |-> << >>], 200)
    ELSE requestUncached([u EXCEPT !.relatedAccountsMap = << >>,
                                   !.debugInfo = newDebugInfo(u.rpcUrl),
                                   !.i = 0])

\* GET and analyzeAddress up to the first await (lines 392-405, 59-87)
startUncached(address, urlOk, envUrl) ==
    IF ~urlOk THEN respond(IdleUncached, InternalErrorResultUncached, 500)
    ELSE IF address = "" THEN respond(IdleUncached, MissingAddressResultUncached, 400)
    ELSE IF ~isValidSolanaAddress(address)
    THEN respond([IdleUncached EXCEPT !.address = address],
                 InvalidResultUncached(address), 200)
    ELSE [IdleUncached EXCEPT !.address = address, !.rpcUrl = rpcUrlOf(envUrl),
                              !.pc = "balance"]

\* a request arrives at the uncached variant
StartUncached(address, urlOk) ==
    /\ uncached.pc \in {"idle", "done"}
    /\ uncached' = startUncached(address, urlOk, HELIUS_RPC_URL)
    /\ UNCHANGED <<analysisCache, now, HELIUS_RPC_URL, run, lastGet, putLog, call>>

\* getBalance returns: the connection is kept
BalanceReturns ==
    /\ uncached.pc = "balance"
    /\ uncached' = [uncached EXCEPT !.pc = "listing"]
    /\ UNCHANGED <<analysisCache, now, HELIUS_RPC_URL, run, lastGet, putLog, call>>

\* getBalance throws: the standard RPC is used instead (lines 89-95)
BalanceFails ==
    /\ uncached.pc = "balance"
    /\ uncached' = [uncached EXCEPT !.pc = "listing", !.rpcUrl = FALLBACK_RPCS[2]]
    /\ UNCHANGED <<analysisCache, now, HELIUS_RPC_URL, run, lastGet, putLog, call>>

\* getSignaturesForAddress returns (lines 98-116)
ListingReturnsUncached ==
    /\ uncached.pc = "listing"
    /\ \E signatures \in Listings :
       LET u == [uncached EXCEPT !.signatures = signatures,
                                 !.actualTotalTransactions = Len(signatures)]
       IN  uncached' = IF Len(signatures) = listingLimit
                       THEN [u EXCEPT !.pc = "estimating"]
                       ELSE afterListing(u)
    /\ UNCHANGED <<analysisCache, now, HELIUS_RPC_URL, run, lastGet, putLog, call>>

\* getSignaturesForAddress throws: the catch of analyzeAddress (lines 382-389)
ListingFailsUncached ==
    /\ uncached.pc = "listing"
    /\ \E errorMessage \in ErrorMessages :
       uncached' = respond(uncached, ErrorResultUncached(uncached.address, errorMessage), 200)
    /\ UNCHANGED <<analysisCache, now, HELIUS_RPC_URL, run, lastGet, putLog, call>>

\* the longer listing returns (lines 107-111)
EstimateReturns ==
    /\ uncached.pc = "estimating"
    /\ \E length \in EstimateLengths :
       uncached' = afterListing([uncached EXCEPT !.actualTotalTransactions = length])
    /\ UNCHANGED <<analysisCache, now, HELIUS_RPC_URL, run, lastGet, putLog, call>>

\* the longer listing throws: the sample size stands (lines 112-115)
EstimateFails ==
    /\ uncached.pc = "estimating"
    /\ uncached' = afterListing([uncached EXCEPT
                                    !.actualTotalTransactions = Len(uncached.signatures)])
    /\ UNCHANGED <<analysisCache, now, HELIUS_RPC_URL, run, lastGet, putLog, call>>

\* the delay before a batch is over (lines 153-157)
DelayElapsedUncached ==
    /\ uncached.pc = "delay"
    /\ uncached' = requestUncached(uncached)
    /\ UNCHANGED <<analysisCache, now, HELIUS_RPC_URL, run, lastGet, putLog, call>>

\* getParsedTransaction returns; the 200 ms pause starts (lines 166-172)
FetchOneReturnsUncached ==
    /\ uncached.pc = "fetchOne"
    /\ \E tx \in FetchedUncached(uncached.address) :
       uncached' = [uncached EXCEPT !.transactions = Append(@, tx), !.pc = "gap"]
    /\ UNCHANGED <<analysisCache, now, HELIUS_RPC_URL, run, lastGet, putLog, call>>

\* getParsedTransaction throws: null is pushed (lines 173-176)
FetchOneFailsUncached ==
    /\ uncached.pc = "fetchOne"
    /\ uncached' = processUncached([uncached EXCEPT !.transactions = Append(@, null)])
    /\ UNCHANGED <<analysisCache, now, HELIUS_RPC_URL, run, lastGet, putLog, call>>

\* the pause after an individual request is over: the batch is processed
GapElapsedUncached ==
    /\ uncached.pc = "gap"
    /\ uncached' = processUncached(uncached)
    /\ UNCHANGED <<analysisCache, now, HELIUS_RPC_URL, run, lastGet, putLog, call>>

\* getParsedTransactions returns one entry for the signature (lines 180-184)
FetchBatchReturnsUncached ==
    /\ uncached.pc = "fetchBatch"
    /\ \E tx \in FetchedUncached(uncached.address) :
       uncached' = processUncached([uncached EXCEPT !.transactions = <<tx>>])
    /\ UNCHANGED <<analysisCache, now, HELIUS_RPC_URL, run, lastGet, putLog, call>>

\* getParsedTransactions throws: the error is noted, a delay follows (341-346)
FetchBatchFailsUncached ==
    /\ uncached.pc = "fetchBatch"
    /\ uncached' = [uncached EXCEPT
                       !.debugInfo.errors = Append(@, <<"Batch ", uncached.i, ": ", "fetch failed">>),
                       !.pc = "errorDelay"]
    /\ UNCHANGED <<analysisCache, now, HELIUS_RPC_URL, run, lastGet, putLog, call>>

\* the delay after a failed batch is over: continue
ErrorDelayElapsed ==
    /\ uncached.pc = "errorDelay"
    /\ uncached' = nextUncached(uncached)
    /\ UNCHANGED <<analysisCache, now, HELIUS_RPC_URL, run, lastGet, putLog, call>>

NextUncached ==
    \/ \E address \in RequestAddresses, urlOk \in BOOLEAN : StartUncached(address, urlOk)
    \/ BalanceReturns
    \/ BalanceFails
    \/ ListingReturnsUncached
    \/ ListingFailsUncached
    \/ EstimateReturns
    \/ EstimateFails
    \/ DelayElapsedUncached
    \/ FetchOneReturnsUncached
    \/ FetchOneFailsUncached
    \/ GapElapsedUncached
    \/ FetchBatchReturnsUncached
    \/ FetchBatchFailsUncached
    \/ ErrorDelayElapsed

SpecUncached == Init /\ [][NextUncached]_vars

----------------------------------------------------------------------------
(* Converter specification: getTokenValueInSol called directly *)

\* largest decimals of a token balance
MaxDecimals == 6

BONK == "DezXAZ8z7PnrnRJjz3wXBoRgixCa6xjnB7YaB1pPB263"
OTHER_MINT == "So1anaUnknownMint22222222222222222222222222"

\* the mints, raw amounts and decimals the converter is called with
ConverterMints == {USDC, WSOL, BONK, UNKNOWN_MINT, OTHER_MINT}
ConverterAmounts == {0, 1, 250, 2000}

\* getTokenValueInSol(mint, tokenAmount, decimals) is called
Convert(mint, tokenAmount, decimals) ==
    /\ call' = [fn |-> "getTokenValueInSol", mint |-> mint,
                tokenAmount |-> tokenAmount, decimals |-> decimals,
                value |-> getTokenValueInSol(mint, tokenAmount, decimals)]
    /\ UNCHANGED <<analysisCache, now, HELIUS_RPC_URL, run, lastGet, putLog, uncached>>

NextConvert ==
    \E mint \in ConverterMints, tokenAmount \in ConverterAmounts, decimals \in 0..MaxDecimals :
        Convert(mint, tokenAmount, decimals)

SpecConvert == Init /\ [][NextConvert]_vars

----------------------------------------------------------------------------
(* Formatter specification: formatSolAmount of the cached variant called   *)
(* directly                                                                *)

\* largest leading number of the amounts formatted
MaxLeading == 20

\* the amounts formatted, in micro-SOL: from 0 to 2000 SOL, with the values
\* next to the bracket limits
FormatterValues ==
    {k * Pow10(e) : k \in 0..MaxLeading, e \in 0..8}
    \cup {999, 1001, 999999, 1000001, 999999999, 1000000001}

\* formatSolAmount(solValue) is called
Format(solValue) ==
    /\ call' = [fn |-> "formatSolAmount", solValue |-> solValue,
                value |-> formatSolAmount(solValue)]
    /\ UNCHANGED <<analysisCache, now, HELIUS_RPC_URL, run, lastGet, putLog, uncached>>

NextFormat == \E solValue \in FormatterValues : Format(solValue)

SpecFormat == Init /\ [][NextFormat]_vars

----------------------------------------------------------------------------
(* Cache-only specification: the cache functions called directly *)

\* getCachedAnalysis(address)
CacheGet(address) ==
    LET cached == getCachedAnalysis(analysisCache, address, now)
    IN  /\ analysisCache' = cached.cache
        /\ lastGet' = [address |-> address, data |-> cached.data]
        /\ UNCHANGED <<now, HELIUS_RPC_URL, run, putLog, uncached, call>>

\* setCachedAnalysis(address, data) with a success result
CachePut(address) ==
    /\ Len(putLog) < MaxPuts
    /\ analysisCache' = setCachedAnalysis(analysisCache, address,
                                          SuccessResult(address, << >>), now)
    /\ putLog' = Append(putLog, address)
    /\ lastGet' = NoGet
    /\ UNCHANGED <<now, HELIUS_RPC_URL, run, uncached, call>>

\* the insertion of an error result
CachePutError(address, errorMessage) ==
    /\ Len(putLog) < MaxPuts
    /\ analysisCache' = cacheErrorResult(analysisCache, address,
                                         ErrorResult(address, errorMessage), now)
    /\ putLog' = Append(putLog, address)
    /\ lastGet' = NoGet
    /\ UNCHANGED <<now, HELIUS_RPC_URL, run, uncached, call>>

\* the addresses the cache functions are called with
CacheAddresses == {"A1", "A2", "A3"}

NextCache ==
    \/ \E address \in CacheAddresses : CacheGet(address)
    \/ \E address \in CacheAddresses : CachePut(address)
    \/ \E address \in CacheAddresses : CachePutError(address, "fetch failed")
    \/ Tick

\* the provider plays no part in the cache-only specification
InitCache == Init /\ HELIUS_RPC_URL = ""

SpecCache == InitCache /\ [][NextCache]_vars
----------------------------------------------------------------------------
(* Ranking specification: requests for address A2, whose transactions give *)
(* several counterparties close or equal volumes; the provider does not    *)
(* fail and the clock stands still                                         *)

NextRank ==
    \/ \E r \in SequentialRuns : Start(r, "A2", TRUE)
    \/ \E r \in SequentialRuns, signatures \in 0..MaxSigs : ListingReturns(r, signatures)
    \/ \E r \in SequentialRuns : FetchOneReturns(r)
    \/ \E r \in SequentialRuns : GapElapsed(r)
    \/ \E r \in SequentialRuns : FetchBatchReturns(r)
    \/ \E r \in SequentialRuns : DelayElapsed(r)

SpecRank == Init /\ [][NextRank]_vars
----------------------------------------------------------------------------
(* Wide specification: requests for address A3, whose transactions have 26 *)
(* counterparties; the provider does not fail and the clock stands still   *)

NextWide ==
    \/ \E r \in SequentialRuns : Start(r, "A3", TRUE)
    \/ \E r \in SequentialRuns, signatures \in 0..MaxSigs : ListingReturns(r, signatures)
    \/ \E r \in SequentialRuns : FetchOneReturns(r)
    \/ \E r \in SequentialRuns : GapElapsed(r)
    \/ \E r \in SequentialRuns : FetchBatchReturns(r)
    \/ \E r \in SequentialRuns : DelayElapsed(r)

SpecWide == Init /\ [][NextWide]_vars
----------------------------------------------------------------------------
(* Exclusion specification: requests for address A4, in whose transactions *)
(* only excluded accounts have a balance change                            *)

NextExcluded ==
    \/ \E r \in SequentialRuns : Start(r, "A4", TRUE)
    \/ \E r \in SequentialRuns, signatures \in 0..MaxSigs : ListingReturns(r, signatures)
    \/ \E r \in SequentialRuns : FetchOneReturns(r)
    \/ \E r \in SequentialRuns : GapElapsed(r)
    \/ \E r \in SequentialRuns : FetchBatchReturns(r)
    \/ \E r \in SequentialRuns : DelayElapsed(r)

SpecExcluded == Init /\ [][NextExcluded]_vars
----------------------------------------------------------------------------
(* Owner specification: requests for address A7, in whose transactions an  *)
(* excluded account owns a token balance that changes                      *)

NextOwner ==
    \/ \E r \in SequentialRuns : Start(r, "A7", TRUE)
    \/ \E r \in SequentialRuns, signatures \in 0..MaxSigs : ListingReturns(r, signatures)
    \/ \E r \in SequentialRuns : FetchOneReturns(r)
    \/ \E r \in SequentialRuns : GapElapsed(r)
    \/ \E r \in SequentialRuns : FetchBatchReturns(r)
    \/ \E r \in SequentialRuns : DelayElapsed(r)

SpecOwner == Init /\ [][NextOwner]_vars
----------------------------------------------------------------------------
(* Cap specification: requests for address A5 with every length of listing *)
(* the listing call may return, and every failure of the record requests;  *)
(* the clock stands still                                                  *)

NextCap ==
    \/ \E r \in SequentialRuns : Start(r, "A5", TRUE)
    \/ \E r \in SequentialRuns, signatures \in 0..listingLimit : ListingReturns(r, signatures)
    \/ \E r \in SequentialRuns : FetchOneReturns(r)
    \/ \E r \in SequentialRuns, errorMessage \in ErrorMessages : FetchOneFails(r, errorMessage)
    \/ \E r \in SequentialRuns : GapElapsed(r)
    \/ \E r \in SequentialRuns : FetchBatchReturns(r)
    \/ \E r \in SequentialRuns, errorMessage \in ErrorMessages : FetchBatchFails(r, errorMessage)
    \/ \E r \in SequentialRuns : BackoffElapsed(r)
    \/ \E r \in SequentialRuns : DelayElapsed(r)

SpecCap == Init /\ [][NextCap]_vars

\* lengths of listing in the specification with fairness: none, less than a
\* batch, more than a batch, more than either cap, a full page
LiveListings == {0, 1, 4, 16, 26, listingLimit}

\* a step of the request in slot r that a returning or failing upstream call
\* or an elapsed timer brings about
Progress(r) ==
    \/ \E signatures \in LiveListings : ListingReturns(r, signatures)
    \/ \E errorMessage \in ErrorMessages : ListingFails(r, errorMessage)
    \/ FetchOneReturns(r)
    \/ \E errorMessage \in ErrorMessages : FetchOneFails(r, errorMessage)
    \/ GapElapsed(r)
    \/ FetchBatchReturns(r)
    \/ \E errorMessage \in ErrorMessages : FetchBatchFails(r, errorMessage)
    \/ BackoffElapsed(r)
    \/ DelayElapsed(r)

\* requests for address A6, whose record bodies carry no meta, with every
\* outcome of the upstream calls
NextLive ==
    \/ \E r \in SequentialRuns : Start(r, "A6", TRUE)
    \/ \E r \in SequentialRuns : Progress(r)

\* every awaited call returns or throws and every timer fires: a request
\* that can take a step takes one
SpecLive == Init /\ [][NextLive]_vars /\ \A r \in SequentialRuns : WF_vars(Progress(r))
----------------------------------------------------------------------------
(* Properties *)

\* the entry the store holds for an address, or null
entryOf(address) == MapGet(analysisCache, getCacheKey(address), null)

\* a payload that reports a failure with a message
hasError(result) == "error" \in DOMAIN result /\ NonEmptyText(result.error)

\* a payload that reports a valid address and no error
isSuccess(result) == result.isValid /\ "error" \notin DOMAIN result

\* the store with a live success entry added under an address
withEntry(cache, address) ==
    MapSet(cache, getCacheKey(address),
           [data |-> SuccessResult(address, << >>), timestamp |-> now, ttl |-> CACHE_TTL])

\* C1: a request for an address the validator rejects ends with isValid =
\* false and a non-empty error without any upstream request, and it does so
\* whatever the store holds, an entry under that very address included: the
\* store is returned as it was
C1_InvalidRejected ==
    \A r \in Runs, address \in InvalidAddresses :
        /\ (run[r].pc = "done" /\ run[r].address = address) =>
               /\ ~run[r].result.isValid
               /\ hasError(run[r].result)
               /\ run[r].upstream = 0
        /\ \A cache \in {analysisCache, withEntry(analysisCache, address)} :
               LET out == startRequest(run[r], cache, address, TRUE, now)
               IN  /\ out.run.pc = "done"
                   /\ ~out.run.result.isValid
                   /\ hasError(out.run.result)
                   /\ out.cache = cache

\* an invalid address was answered while the store held an entry
C1_Witness ==
    /\ run[1].pc = "done"
    /\ run[1].address \in InvalidAddresses
    /\ ~run[1].result.isValid
    /\ Len(analysisCache) > 0

\* C2: when a request that fetched (a cache miss) ended without run failure,
\* zero signatures included, the next request for the same address, started
\* within the success ttl, returns the same payload and issues no upstream
\* request
C2_Idempotent ==
    [][\A r \in Runs :
          (/\ run[r].pc = "done"
           /\ run[r].outcome \in {"empty", "success"}
           /\ now - run[r].doneAt <= CACHE_TTL
           /\ run'[r] # run[r]
           /\ run'[r].address = run[r].address)
          => (/\ run'[r].pc = "done"
              /\ run'[r].result = run[r].result
              /\ run'[r].upstream = 0)]_vars

\* C3: getCachedAnalysis returns an entry only if now - timestamp <= ttl, and
\* returns nothing for an entry with now - timestamp > ttl, cleaned up or not
C3_ExpiredNeverReturned ==
    [][\A address \in CacheAddresses :
          CacheGet(address) =>
              LET entry == entryOf(address)
              IN  /\ lastGet'.data # null =>
                         (entry # null /\ now - entry.timestamp <= entry.ttl
                                       /\ lastGet'.data = entry.data)
                  /\ (entry # null /\ now - entry.timestamp > entry.ttl) =>
                         lastGet'.data = null]_vars

\* the only entry ever inserted was asked for after its ttl, without a
\* cleanup pass in between: nothing was returned and the entry is gone
C3_Witness ==
    /\ Len(putLog) = 1
    /\ lastGet.address = putLog[1]
    /\ lastGet.data = null
    /\ analysisCache = << >>

\* C4: the store never holds more than MAX_CACHE_SIZE entries
C4_SizeWithinCapacity == Len(analysisCache) <= MAX_CACHE_SIZE

\* C5: after more than MAX_CACHE_SIZE success insertions under distinct
\* addresses, none of them expired, the store holds exactly MAX_CACHE_SIZE
\* entries, those inserted last
C5_EvictionKeepsNewest ==
    (/\ Len(putLog) > MAX_CACHE_SIZE
     /\ \A i, j \in 1..Len(putLog) : putLog[i] = putLog[j] => i = j
     /\ \A i \in 1..Len(analysisCache) : analysisCache[i][2].ttl = CACHE_TTL
     /\ now <= CACHE_TTL)
    => (/\ Len(analysisCache) = MAX_CACHE_SIZE
        /\ Range(MapKeys(analysisCache)) =
               {getCacheKey(putLog[i]) : i \in (Len(putLog) - MAX_CACHE_SIZE + 1)..Len(putLog)})

\* C6: a request for a valid address that received no record body (no
\* signature listed, or only absent records) ends with isValid = true, an
\* empty relatedAccounts and no error
C6_NoRecordsEmptySuccess ==
    \A r \in Runs :
        (/\ run[r].pc = "done"
         /\ run[r].outcome \in {"empty", "success"}
         /\ run[r].fetched = 0)
        => (/\ run[r].result.isValid
            /\ run[r].result.relatedAccounts = << >>
            /\ "error" \notin DOMAIN run[r].result)

\* signatures were listed and every record requested was absent or failed
C6_Witness ==
    /\ run[1].pc = "done"
    /\ run[1].outcome = "success"
    /\ run[1].signatures > 1
    /\ run[1].fetched = 0
    /\ run[1].result.relatedAccounts = << >>

\* C7: after a run failure the store holds the error payload under the
\* address with the ttl of one minute, shorter than the success ttl; the next
\* request for the address returns that payload without upstream request
\* while now - createdAt <= 1 minute, and lists the signatures again later
C7_ErrorCachedBriefly ==
    [][\A r \in Runs :
          (run[r].pc = "done" /\ run[r].outcome = "failure") =>
              /\ shortCacheTime < CACHE_TTL
              /\ hasError(run[r].result)
              /\ entryOf(run[r].address) =
                     [data |-> run[r].result, timestamp |-> run[r].doneAt,
                      ttl |-> shortCacheTime]
              /\ (run'[r] # run[r] /\ run'[r].address = run[r].address) =>
                     IF now - run[r].doneAt <= shortCacheTime
                     THEN /\ run'[r].pc = "done"
                          /\ run'[r].result = run[r].result
                          /\ run'[r].upstream = 0
                     ELSE /\ run'[r].pc = "listing"
                          /\ run'[r].upstream = 1]_vars

\* a request was answered with the cached error payload one minute after the
\* failure
C7_Witness ==
    /\ run[1].pc = "done"
    /\ run[1].outcome = "hit"
    /\ hasError(run[1].result)
    /\ run[1].upstream = 0
    /\ entryOf(run[1].address) # null
    /\ now - entryOf(run[1].address).timestamp = shortCacheTime

\* every count of the first aggregate is still reached in the second
keptIn(agg1, agg2) ==
    /\ \A i \in 1..Len(agg1.accountVolumes) :
           MapGet(agg2.accountVolumes, agg1.accountVolumes[i][1], 0)
               >= agg1.accountVolumes[i][2]
    /\ \A i \in 1..Len(agg1.accountInteractions) :
           MapGet(agg2.accountInteractions, agg1.accountInteractions[i][1], 0)
               >= agg1.accountInteractions[i][2]

\* C9: once the signatures are listed, no step of the request ends it with a
\* failure: a failed record or batch request leaves the request running or
\* done with a success payload, takes nothing from the aggregate, and a
\* failed batch request leaves the aggregate as it was and moves on to the
\* backoff or to the next batch
C9_BatchFailuresNotFatal ==
    [][\A r \in Runs :
          run[r].pc \in {"fetchOne", "gap", "fetchBatch", "backoff", "delay"} =>
              /\ run'[r].outcome # "failure"
              /\ run'[r].pc = "done" => isSuccess(run'[r].result)
              /\ keptIn(run[r].agg, run'[r].agg)
              /\ (run[r].pc = "fetchBatch" /\ run'[r].batchErrors > run[r].batchErrors) =>
                     /\ run'[r].agg = run[r].agg
                     /\ \/ run'[r].pc = "backoff" /\ run'[r].i = run[r].i
                        \/ /\ run'[r].pc \in {"delay", "done"}
                           /\ run'[r].i = run[r].i + batchSizeOf(isHelius)]_vars

\* a batch request failed, and the request ended with the accounts of
\* another batch in its success payload
C9_Witness ==
    /\ ~isHelius
    /\ run[1].pc = "done"
    /\ run[1].outcome = "success"
    /\ run[1].batchErrors > 0
    /\ run[1].result.relatedAccounts # << >>

\* C10: relatedAccounts of a success payload is ordered by non-increasing
\* accumulated volume and, at equal volume, by non-increasing interaction
\* count
C10_RankedByVolume ==
    \A r \in Runs :
        (run[r].pc = "done" /\ run[r].outcome = "success") =>
            LET related == run[r].result.relatedAccounts
                volume(i) == MapGet(run[r].agg.accountVolumes, related[i].address, 0)
                count(i) == MapGet(run[r].agg.accountInteractions, related[i].address, 0)
            IN  \A i, j \in 1..Len(related) :
                    i < j => \/ volume(i) > volume(j)
                             \/ volume(i) = volume(j) /\ count(i) >= count(j)

\* two accounts print the same volume, the one with the larger exact volume
\* comes first although it was seen second
C10_Witness ==
    /\ run[1].pc = "done"
    /\ run[1].outcome = "success"
    /\ Len(run[1].result.relatedAccounts) = 2
    /\ run[1].result.relatedAccounts[1].totalSolVolume
           = run[1].result.relatedAccounts[2].totalSolVolume
    /\ MapGet(run[1].agg.accountVolumes, run[1].result.relatedAccounts[1].address, 0)
           > MapGet(run[1].agg.accountVolumes, run[1].result.relatedAccounts[2].address, 0)
    /\ MapKeys(run[1].agg.accountInteractions)[1] = run[1].result.relatedAccounts[2].address

\* a payload with relatedAccounts present and empty
hasEmptyRelatedAccounts(result) ==
    "relatedAccounts" \in DOMAIN result /\ result.relatedAccounts = << >>

\* a response that reports a failure: it carries an error member
isFailure(result) == "error" \in DOMAIN result

\* C8: every failure payload, of either variant, has a non-empty error
\* message and relatedAccounts present as an empty list
C8_FailurePayloadShape ==
    /\ \A r \in Runs :
          run[r].pc = "done" /\ isFailure(run[r].result)
          => NonEmptyText(run[r].result.error) /\ hasEmptyRelatedAccounts(run[r].result)
    /\ uncached.pc = "done" /\ isFailure(uncached.result)
       => NonEmptyText(uncached.result.error) /\ hasEmptyRelatedAccounts(uncached.result)

\* a payload that lists counterparties
hasRelatedAccounts(result) == "relatedAccounts" \in DOMAIN result

\* C11: no payload of either variant lists more than the top 25 counterparties
C11_AtMostTopAccounts ==
    /\ \A r \in Runs :
          run[r].pc = "done" /\ hasRelatedAccounts(run[r].result)
          => Len(run[r].result.relatedAccounts) <= topAccounts
    /\ uncached.pc = "done" /\ hasRelatedAccounts(uncached.result)
       => Len(uncached.result.relatedAccounts) <= topAccounts

\* C12: while the records processed are records in which only an excluded
\* account has a balance change, the aggregate maps stay empty and the
\* result lists no counterparty
C12_ExcludedOnlyEmpty ==
    \A r \in Runs :
        run[r].address = "A4"
        => /\ run[r].agg = EmptyAggregate
           /\ run[r].pc = "done" => run[r].result.relatedAccounts = << >>

RECURSIVE SumSeq(_)
\* the sum of a sequence of numbers
SumSeq(s) == IF s = << >> THEN 0 ELSE Head(s) + SumSeq(Tail(s))

\* the counterparties of the transactions of address A1
Counterparties == {"X", "Y"}

\* abs(native delta) of an account in a record, in micro-SOL
nativeVolumeOf(tx, account) ==
    IF "preBalances" \in DOMAIN tx.meta /\ "postBalances" \in DOMAIN tx.meta
    THEN SumSeq([k \in 1..Len(tx.accountKeys) |->
                    IF /\ tx.accountKeys[k] = account
                       /\ k <= Len(tx.meta.preBalances)
                       /\ k <= Len(tx.meta.postBalances)
                    THEN Abs(tx.meta.postBalances[k] - tx.meta.preBalances[k]) \div 1000
                    ELSE 0])
    ELSE 0

\* the raw amount a token map holds under a key, 0 when it holds none
rawAmount(tokens, tokenKey) ==
    IF MapHas(tokens, tokenKey) THEN MapGet(tokens, tokenKey, null).amount ELSE 0

\* the decimals a token map holds under a key, 0 when it holds none
rawDecimals(tokens, tokenKey) ==
    IF MapHas(tokens, tokenKey) THEN MapGet(tokens, tokenKey, null).decimals ELSE 0

\* converted abs(secondary-unit delta) of an account in a record, in micro-SOL
tokenVolumeOf(tx, account) ==
    IF "preTokenBalances" \in DOMAIN tx.meta /\ "postTokenBalances" \in DOMAIN tx.meta
    THEN LET pre == tokenMap(tx.meta.preTokenBalances, 1)
             post == tokenMap(tx.meta.postTokenBalances, 1)
             keys == allTokenKeys(pre, post)
         IN  SumSeq([i \in 1..Len(keys) |->
                        IF keys[i][1] = account
                        THEN getTokenValueInSol(
                                 keys[i][2],
                                 Abs(rawAmount(post, keys[i]) - rawAmount(pre, keys[i])),
                                 OrElse(rawDecimals(pre, keys[i]),
                                        OrElse(rawDecimals(post, keys[i]), 6)))
                        ELSE 0])
    ELSE 0

\* what the records of a batch add to the volume of an account
batchVolumeOf(transactions, account) ==
    SumSeq([i \in 1..Len(transactions) |->
               IF isUsable(transactions[i])
               THEN nativeVolumeOf(transactions[i], account)
                    + tokenVolumeOf(transactions[i], account)
               ELSE 0])

\* the volume the aggregate holds for an account
volumeOf(agg, account) == MapGet(agg.accountVolumes, account, 0)

\* the result prints, for every account it lists, the accumulated volume
printsAccumulated(r) ==
    \A i \in 1..Len(run[r].result.relatedAccounts) :
        run[r].result.relatedAccounts[i].totalSolVolume
            = formatSolAmount(volumeOf(run[r].agg, run[r].result.relatedAccounts[i].address))

\* C13: the volume of a counterparty is the exact sum of its native and
\* converted token deltas: every step that fetches records adds, for every
\* counterparty, exactly what the records of some possible batch contribute;
\* the result prints the formatter applied once to the accumulated sum, and
\* one record with a native delta of 2_000_000_000 for X alone gives
\* [{X, "2.00 SOL"}]
C13_VolumeAdditive ==
    /\ [](/\ \A r \in Runs :
              run[r].pc = "done" /\ run[r].outcome = "success" => printsAccumulated(r)
          /\ relatedAccountsOf(processTransactions(EmptyAggregate, <<TxPay("A1")>>, "A1"))
                 = <<[address |-> "X", totalSolVolume |-> <<200, 2, " SOL">>]>>)
    /\ [][\A r \in Runs :
            run[r].pc \in {"fetchOne", "gap", "fetchBatch"}
            => \E transactions \in FetchedBatch(r) :
                  \A account \in Counterparties :
                      volumeOf(run'[r].agg, account)
                          = volumeOf(run[r].agg, account)
                            + batchVolumeOf(transactions, account)]_vars

\* Y's volume comes from two records and from both passes of each: twice
\* 0.000005 SOL native and 1.5 SOL of tokens, printed once as 3.00 SOL
C13_Witness ==
    /\ run[1].pc = "done"
    /\ run[1].outcome = "success"
    /\ volumeOf(run[1].agg, "Y") = 3000010
    /\ \E i \in 1..Len(run[1].result.relatedAccounts) :
          run[1].result.relatedAccounts[i]
              = [address |-> "Y", totalSolVolume |-> <<300, 2, " SOL">>]

\* C14: a mint without rate converts to 0 for every amount and decimals, an
\* amount of 0 converts to 0 for every mint and decimals, and the call
\* changes nothing else
C14_ConverterZero ==
    /\ [](call.fn = "getTokenValueInSol"
          => /\ ~MapHas(TOKEN_TO_SOL_RATES, call.mint) => call.value = 0
             /\ call.tokenAmount = 0 => call.value = 0)
    /\ [][call' # call
          => UNCHANGED <<analysisCache, now, HELIUS_RPC_URL, run, lastGet, putLog, uncached>>]_vars

\* a positive amount of a mint without rate was converted, with decimals 0
C14_Witness ==
    /\ call.fn = "getTokenValueInSol"
    /\ ~MapHas(TOKEN_TO_SOL_RATES, call.mint)
    /\ call.tokenAmount = 2000
    /\ call.decimals = 0
    /\ call.value = 0

\* the decimal places the magnitude of an amount in micro-SOL calls for
placesFor(solValue) ==
    IF solValue < 1000 THEN 6
    ELSE IF solValue < 1000000 THEN 3
    ELSE IF solValue < 1000000000 THEN 2
    ELSE 0

\* C15: 0 is printed as "0 SOL"; a positive amount is printed with 6 decimal
\* places below 0.001 SOL, 3 below 1 SOL, 2 below 1000 SOL and none from
\* 1000 SOL
C15_FormatterPlaces ==
    call.fn = "formatSolAmount"
    => /\ call.solValue = 0 => call.value = <<0, 0, " SOL">>
       /\ call.solValue > 0 => /\ call.value[2] = placesFor(call.solValue)
                               /\ call.value[3] = " SOL"

\* the amount at the last bracket limit, 1000 SOL, was printed without
\* decimal places
C15_Witness ==
    /\ call.fn = "formatSolAmount"
    /\ call.solValue = 1000000000
    /\ call.value = <<1000, 0, " SOL">>

\* the store holds an entry that is expired
holdsExpired(cache) == \E i \in 1..Len(cache) : isExpired(cache[i][2], now)

\* C16: a request for an invalid address is answered at once, without
\* upstream request, and the store after it is the store before it
C16_InvalidLeavesCache ==
    [][\A r \in Runs :
          run'[r].pc = "done" /\ run'[r].outcome = "invalid"
          => /\ analysisCache' = analysisCache
             /\ run'[r].upstream = 0
             /\ run[r].pc \in {"idle", "done"}]_vars

\* an invalid address was answered while the store held an expired entry
C16_Witness ==
    /\ run[1].pc = "done"
    /\ run[1].outcome = "invalid"
    /\ run[1].doneAt = now
    /\ holdsExpired(analysisCache)

\* C17: a request for the cache statistics leaves the store as it was, the
\* expired entries included
C17_StatsReadOnly ==
    [][\A r \in Runs :
          run'[r].pc = "done" /\ run'[r].outcome = "stats"
          => analysisCache' = analysisCache]_vars

\* the statistics were given while the store held an expired entry, which
\* they list and which is still there
C17_Witness ==
    /\ run[1].pc = "done"
    /\ run[1].outcome = "stats"
    /\ run[1].doneAt = now
    /\ holdsExpired(analysisCache)
    /\ run[1].result.totalEntries = Len(analysisCache)
    /\ \E i \in 1..Len(run[1].result.entries) : run[1].result.entries[i].expiresInMinutes < 0

\* the step issues the first upstream request of a batch of request r
issuesBatch(r) ==
    /\ run'[r].upstream = run[r].upstream + 1
    /\ run'[r].pc \in {"fetchOne", "fetchBatch"}
    /\ run'[r].transactions = << >>

\* the fetch policy of the tier of the run, but for the delay: Helius has
\* batches of at most 3 signatures fetched by individual requests, any other
\* provider batches of at most 5 fetched by one batch request
tierPolicy(r) ==
    /\ run[r].pc \in {"fetchOne", "gap"} => isHelius
    /\ run[r].pc = "fetchBatch" => ~isHelius
    /\ run[r].pc \in {"fetchOne", "gap", "fetchBatch", "backoff", "delay"}
       => /\ run[r].i % (IF isHelius THEN 3 ELSE 5) = 0
          /\ Len(run[r].transactions) <= 3
          /\ run'[r].fetched - run[r].fetched <= (IF isHelius THEN 1 ELSE 5)
          /\ run'[r].pc # "done"
             => run'[r].i - run[r].i \in {0, IF isHelius THEN 3 ELSE 5}
          /\ run'[r].pc # "done" => (run'[r].pc \in {"fetchOne", "gap"}) = isHelius
                                    \/ run'[r].pc \in {"backoff", "delay"}

\* C18 as stated: the tier policy, and every batch is preceded by the delay
\* of the tier, 2 s for Helius and 1 s otherwise
C18_EveryBatchDelayed ==
    [][\A r \in Runs :
          /\ tierPolicy(r)
          /\ issuesBatch(r)
             => /\ run[r].pc = "delay"
                /\ run[r].waitMs = (IF isHelius THEN 2000 ELSE 1000)]_vars

\* C18, amended: the tier policy, and every batch but the first of the run
\* is preceded by the delay of the tier; the first follows the listing call
C18_TierPolicy ==
    [][\A r \in Runs :
          /\ tierPolicy(r)
          /\ issuesBatch(r)
             => IF run'[r].i = 0
                THEN run[r].pc = "listing"
                ELSE /\ run[r].pc = "delay"
                     /\ run[r].waitMs = (IF isHelius THEN 2000 ELSE 1000)]_vars

\* a Helius run waits 2 s before its second batch, which starts at the
\* fourth signature
C18_Witness ==
    /\ isHelius
    /\ run[1].pc = "delay"
    /\ run[1].waitMs = 2000
    /\ run[1].i = 3
    /\ run[1].fetched > 0

\* C19: in a sequence of consecutive rate-limited batches of a run, every
\* wait is strictly longer than the wait before it
C19_BackoffGrows ==
    \A r \in Runs :
        \A n \in 2..Len(run[r].backoffs) :
            run[r].backoffs[n] > run[r].backoffs[n - 1]

\* C20: when a request ended with a success payload that did not come from
\* the store, zero signatures included, the store holds that payload under
\* the address, stamped with the time of the return and the success ttl
C20_SuccessIsCached ==
    \A r \in Runs :
        run[r].pc = "done" /\ run[r].outcome \in {"empty", "success"}
        => entryOf(run[r].address)
               = [data |-> run[r].result, timestamp |-> run[r].doneAt, ttl |-> CACHE_TTL]

\* C21: every insertion, of a success result and of an error result alike,
\* leaves a store without expired entry, in which the inserted entry has
\* timestamp = now
C21_InsertionCleansUp ==
    [][putLog' # putLog =>
          /\ ~holdsExpired(analysisCache')
          /\ MapGet(analysisCache', getCacheKey(putLog'[Len(putLog')]), null).timestamp = now]_vars

\* C22: getCachedAnalysis changes the store only by removing the entry of the
\* address asked for when that entry is expired: with a live entry or no
\* entry the store stays as it is; with an expired entry nothing is returned,
\* that entry alone is removed and the other entries, expired or not, stay
\* as they are and in their order
C22_GetRemovesOwnExpired ==
    [][\A address \in CacheAddresses :
          CacheGet(address) =>
              LET key == getCacheKey(address)
                  entry == entryOf(address)
              IN  IF entry = null \/ now - entry.timestamp <= entry.ttl
                  THEN analysisCache' = analysisCache
                  ELSE /\ lastGet'.data = null
                       /\ ~MapHas(analysisCache', key)
                       /\ Len(analysisCache') = Len(analysisCache) - 1
                       /\ \A i, j \in 1..Len(analysisCache) :
                              (i < j /\ analysisCache[i][1] # key /\ analysisCache[j][1] # key)
                              => /\ SelectIndex(analysisCache', analysisCache[i][1], 1)
                                      < SelectIndex(analysisCache', analysisCache[j][1], 1)
                       /\ \A i \in 1..Len(analysisCache) :
                              analysisCache[i][1] # key
                              => MapGet(analysisCache', analysisCache[i][1], null)
                                     = analysisCache[i][2]]_vars

\* the entry inserted first was asked for after its ttl and is gone; the
\* error entry inserted behind it, without cleanup pass, is expired too and
\* is still in the store
C22_Witness ==
    /\ Len(putLog) = 2
    /\ putLog[1] # putLog[2]
    /\ lastGet.address = putLog[1]
    /\ lastGet.data = null
    /\ Len(analysisCache) = 1
    /\ analysisCache[1][1] = getCacheKey(putLog[2])
    /\ analysisCache[1][2].ttl = shortCacheTime
    /\ isExpired(analysisCache[1][2], now)

\* number of entries of a store that are not expired at time t
liveEntries(cache, t) == Len(SelectSeq(cache, LAMBDA p : ~isExpired(p[2], t)))

\* C23: the cache statistics list live entries only: every entry listed has
\* a remaining time-to-live that is not negative, and totalEntries is the
\* number of live entries of the store
C23_StatsLiveOnly ==
    \A r \in Runs :
        run[r].pc = "done" /\ run[r].outcome = "stats"
        => /\ \A i \in 1..Len(run[r].result.entries) :
                  run[r].result.entries[i].expiresInMinutes >= 0
           /\ run[r].result.totalEntries = liveEntries(analysisCache, run[r].doneAt)

\* the request awaits the answer to an upstream request
awaiting(rr) == rr.pc \in {"listing", "fetchOne", "fetchBatch"}

\* number of upstream requests the step issues for slot r
issued(r) ==
    IF run[r].pc \in {"idle", "done"} THEN run'[r].upstream
    ELSE run'[r].upstream - run[r].upstream

\* C24: the batches of a run are processed one after the other. A step of
\* the run issues at most one upstream request, and the run awaits an answer
\* exactly after such a step: no two requests are outstanding. The first batch is
\* requested when the listing call returns, without delay; every later batch
\* is requested when the delay of the tier is over, and the delay starts only
\* when the batch before it is complete: fetched and processed, or failed,
\* with the backoff over when it was rate limited. The position i moves
\* forward by one batch at a time
C24_SequentialBatches ==
    [][\A r \in Runs :
          /\ run'[r] # run[r] =>
                /\ issued(r) \in {0, 1}
                /\ awaiting(run'[r]) <=> issued(r) = 1
          /\ issuesBatch(r) =>
                IF run'[r].i = 0
                THEN run[r].pc = "listing"
                ELSE /\ run[r].pc = "delay"
                     /\ run[r].waitMs = delayMsOf(isHelius)
                     /\ run'[r].i = run[r].i
          /\ (run'[r].pc = "delay" /\ run[r].pc # "delay") =>
                /\ run[r].pc \in {"fetchOne", "gap", "fetchBatch", "backoff"}
                /\ run'[r].i = run[r].i + batchSizeOf(isHelius)
                /\ run'[r].upstream = run[r].upstream
                /\ run[r].pc = "gap" =>
                      /\ Len(run[r].transactions)
                             = batchLength(run[r].signatures, run[r].i, batchSizeOf(isHelius))
                      /\ run'[r].agg
                             = processTransactions(run[r].agg, run[r].transactions, run[r].address)
                /\ run[r].pc = "fetchOne" =>
                      Len(run[r].transactions) + 1
                          = batchLength(run[r].signatures, run[r].i, batchSizeOf(isHelius))
          /\ run[r].pc \notin {"idle", "done"} =>
                run'[r].i \in {run[r].i, run[r].i + batchSizeOf(isHelius)}]_vars

\* the second batch of a run is being fetched after its first batch failed
C24_Witness ==
    /\ ~isHelius
    /\ run[1].pc = "fetchBatch"
    /\ run[1].i = 5
    /\ run[1].batchErrors = 1
    /\ run[1].fetched = 0
    /\ run[1].upstream = 3

\* C25: with individual requests, two consecutive record requests of a run
\* are separated by the pause of requestGapMs, also when the earlier of the
\* two failed: a request that is not the first of its batch is issued when
\* the pause is over, and the delay before the next batch starts when the
\* pause after the last request of the batch is over
C25_GapBetweenRequests ==
    [][\A r \in Runs :
          isHelius =>
              /\ (run'[r].pc = "fetchOne" /\ issued(r) = 1 /\ run'[r].transactions # << >>)
                 => run[r].pc = "gap" /\ run[r].waitMs = requestGapMs
              /\ (run'[r].pc = "delay" /\ run[r].pc # "delay")
                 => run[r].pc = "gap" /\ run[r].waitMs = requestGapMs]_vars

\* C26: when a record request of a batch fails with a rate-limit error, with
\* either provider and with individual requests as with a batch request, the
\* run issues no request before the backoff of the tier is over, 5 s for
\* Helius and 3 s otherwise; after the backoff it goes on with the batch
\* behind the rate-limited one
C26_ThrottledBacksOff ==
    [][\A r \in Runs :
          /\ backoffMsOf(TRUE) > backoffMsOf(FALSE)
          /\ \A errorMessage \in ErrorMessages :
                (/\ isRateLimited(errorMessage)
                 /\ FetchOneFails(r, errorMessage) \/ FetchBatchFails(r, errorMessage))
                => /\ run'[r].pc = "backoff"
                   /\ run'[r].waitMs = backoffMsOf(isHelius)
                   /\ run'[r].upstream = run[r].upstream
                   /\ run'[r].i = run[r].i
          /\ (run[r].pc = "backoff" /\ run'[r] # run[r])
             => /\ run'[r].pc \in {"delay", "done"}
                /\ run'[r].i = run[r].i + batchSizeOf(isHelius)]_vars

\* the hard cap of the tier on the records examined per run
hardCap == IF isHelius THEN 15 ELSE 25

\* C27: a run never asks for more record bodies than the hard cap of its
\* tier, 15 for Helius and 25 otherwise, whatever the listing call returned
\* (0 to 50 signatures) and whichever requests failed; the signatures of a
\* batch being fetched all stand at positions up to the cap
C27_HardCap ==
    \A r \in Runs :
        /\ run[r].requested <= hardCap
        /\ run[r].requested <= run[r].signatures
        /\ run[r].fetched <= run[r].requested
        /\ run[r].pc \in {"fetchOne", "gap", "fetchBatch"}
           => run[r].i + batchLength(run[r].signatures, run[r].i, batchSizeOf(isHelius))
                  <= hardCap

\* a run over a full listing of 50 signatures ended after asking for 25
\* record bodies, one batch request having failed
C27_Witness ==
    /\ ~isHelius
    /\ run[1].pc = "done"
    /\ run[1].outcome = "success"
    /\ run[1].signatures = listingLimit
    /\ run[1].requested = 25
    /\ run[1].batchErrors = 1
    /\ run[1].fetched = 20

\* the largest number of passes of the batch loop, ceil(cap / batchSize)
attemptsBound == (hardCap + batchSizeOf(isHelius) - 1) \div batchSizeOf(isHelius)

\* C28: when every upstream call returns or fails, a run ends: a request
\* that awaits its listing call is done later. The listing call is issued
\* once, when the request starts; the batch being fetched at position i is
\* the attempt number i / batchSize + 1, so that no batch is attempted twice
\* and none is returned to; i never goes back, and the attempts of a run are
\* at most ceil(cap / batchSize), whatever fails
C28_Terminates ==
    /\ \A r \in Runs : run[r].pc = "listing" ~> run[r].pc = "done"
    /\ [](\A r \in Runs :
             /\ run[r].attempts <= attemptsBound
             /\ run[r].pc \in {"fetchOne", "gap", "fetchBatch", "backoff"}
                => run[r].attempts = run[r].i \div batchSizeOf(isHelius) + 1
             /\ run[r].pc = "delay"
                => run[r].attempts = run[r].i \div batchSizeOf(isHelius))
    /\ [][\A r \in Runs :
            /\ run'[r].pc = "listing" => run[r].pc \in {"idle", "done"}
            /\ run[r].pc \notin {"idle", "done"}
               => /\ run'[r].i >= run[r].i
                  /\ run'[r].attempts \in {run[r].attempts, run[r].attempts + 1}
                  /\ run'[r].attempts = run[r].attempts + 1 <=> issuesBatch(r)]_vars

\* a run ended after five attempts, every one of which failed
C28_Witness ==
    /\ ~isHelius
    /\ run[1].pc = "done"
    /\ run[1].outcome = "success"
    /\ run[1].attempts = 5
    /\ run[1].batchErrors = 5
    /\ run[1].fetched = 0

\* the addresses a list of related accounts names
addressesOf(relatedAccounts) ==
    {relatedAccounts[i].address : i \in 1..Len(relatedAccounts)}

\* C29: the queried address is never among the related accounts of its own
\* analysis, nor in the maps of the aggregate, whether the records have it
\* as the account of a native balance, as the owner of a token balance, or
\* as both
C29_SelfExcluded ==
    \A r \in Runs :
        /\ ~MapHas(run[r].agg.accountVolumes, run[r].address)
        /\ ~MapHas(run[r].agg.accountInteractions, run[r].address)
        /\ (run[r].pc = "done" /\ hasRelatedAccounts(run[r].result))
           => run[r].address \notin addressesOf(run[r].result.relatedAccounts)

\* a run has processed a record in which the queried address pays SOL and a
\* record in which it is the owner of a token balance that changed, and
\* lists the counterparties of both
C29_Witness ==
    /\ run[1].pc = "done"
    /\ run[1].outcome = "success"
    /\ run[1].address = "A1"
    /\ addressesOf(run[1].result.relatedAccounts) = {"X", "Y"}
    /\ run[1].fetched = 2

\* the accounts that are never counterparties
ExclusionList == {SYSTEM_PROGRAM, TOKEN_PROGRAM, COMPUTE_BUDGET, SYSVAR_RENT, SYSVAR_CLOCK}

\* C30: no account of the exclusion list is among the related accounts or in
\* the maps of the aggregate, whether the records have it as the account of
\* a native balance or as the owner of a token balance that changed
C30_ExclusionList ==
    \A r \in Runs :
        /\ \A account \in ExclusionList :
              /\ ~MapHas(run[r].agg.accountVolumes, account)
              /\ ~MapHas(run[r].agg.accountInteractions, account)
        /\ (run[r].pc = "done" /\ hasRelatedAccounts(run[r].result))
           => addressesOf(run[r].result.relatedAccounts) \cap ExclusionList = {}

\* C31: the interaction count of a counterparty never exceeds the number of
\* record bodies the run has received: a record raises the count by one at
\* most, also when the account has a native delta and a token delta in it
C31_CountOncePerRecord ==
    /\ \A r \in Runs :
          \A n \in 1..Len(run[r].agg.accountInteractions) :
              run[r].agg.accountInteractions[n][2] <= run[r].fetched
    /\ uncached.pc \notin {"idle", "done", "balance", "listing", "estimating"}
       => \A n \in 1..Len(uncached.relatedAccountsMap) :
              uncached.relatedAccountsMap[n][2].transactionCount
                  <= uncached.debugInfo.processedTxs

\* C32: only accounts with an observed balance change are counted and
\* reported. The records of address A2 change native balances only, and a
\* native delta that is not zero adds to the volume: there, every account
\* with an interaction count and every account of the result has a volume.
\* In the uncached variant every account of the map has a SOL flow or a
\* token interaction
C32_OnlyChangedAccounts ==
    /\ \A r \in Runs :
          run[r].address = "A2"
          => /\ \A n \in 1..Len(run[r].agg.accountInteractions) :
                    volumeOf(run[r].agg, run[r].agg.accountInteractions[n][1]) > 0
             /\ run[r].pc = "done"
                => \A account \in addressesOf(run[r].result.relatedAccounts) :
                       volumeOf(run[r].agg, account) > 0
    /\ \A n \in 1..Len(uncached.relatedAccountsMap) :
          \/ uncached.relatedAccountsMap[n][2].totalSolFlowLamports > 0
          \/ uncached.relatedAccountsMap[n][2].totalTokenInteractions > 0

----------------------------------------------------------------------------
(* Token pass specification: one record with one token balance of X is     *)
(* aggregated                                                              *)

\* one side of a token balance: absent, or present with a raw amount
TokenSides == {<< >>} \cup {<<amount>> : amount \in ConverterAmounts}

\* the token balances of one side: X's balance of `mint`, if present
tokenBalancesOf(side, mint, decimals) ==
    [n \in 1..Len(side) |->
        [owner |-> "X", mint |-> mint, amount |-> side[n], decimals |-> decimals]]

\* a record in which X's balance of `mint` goes from `pre` to `post` and
\* X's native balance does not change
TxDelta(address, mint, pre, post, decimals) ==
    [meta |-> [preBalances |-> <<10000, 70000>>,
               postBalances |-> <<5000, 70000>>,
               preTokenBalances |-> tokenBalancesOf(pre, mint, decimals),
               postTokenBalances |-> tokenBalancesOf(post, mint, decimals)],
     accountKeys |-> <<address, "X">>]

\* the loop body of lines 650-744 runs on one such record, from empty maps
TokenDelta(mint, pre, post, decimals) ==
    /\ pre # << >> \/ post # << >>
    /\ call' = [fn |-> "processTransaction", mint |-> mint,
                pre |-> pre, post |-> post, decimals |-> decimals,
                agg |-> processTransaction(EmptyAggregate,
                            TxDelta("A1", mint, pre, post, decimals), "A1")]
    /\ UNCHANGED <<analysisCache, now, HELIUS_RPC_URL, run, lastGet, putLog, uncached>>

NextToken ==
    \E mint \in {USDC, WSOL}, pre \in TokenSides, post \in TokenSides,
       decimals \in 0..MaxDecimals :
        TokenDelta(mint, pre, post, decimals)

SpecToken == Init /\ [][NextToken]_vars

\* the raw amount of one side of a token balance, an absent side being 0
sideAmount(side) == IF side = << >> THEN 0 ELSE side[1]

\* C33: the amount added to the owner's volume for a token balance change is
\* abs(postRaw - preRaw) / 10^decimals * rate(mint), decimals being the
\* precision of the balance record, an absent side counting as amount 0
C33_TokenDeltaConverted ==
    call.fn = "processTransaction"
    => volumeOf(call.agg, "X")
           = getTokenValueInSol(call.mint,
                                Abs(sideAmount(call.post) - sideAmount(call.pre)),
                                call.decimals)

----------------------------------------------------------------------------
(* Skip specification: requests for address A8, whose records are absent,  *)
(* without meta, or payments of 2 SOL to X                                 *)

NextSkip ==
    \/ \E r \in SequentialRuns : Start(r, "A8", TRUE)
    \/ \E r \in SequentialRuns, signatures \in 0..MaxSigs : ListingReturns(r, signatures)
    \/ \E r \in SequentialRuns : FetchOneReturns(r)
    \/ \E r \in SequentialRuns : GapElapsed(r)
    \/ \E r \in SequentialRuns : FetchBatchReturns(r)
    \/ \E r \in SequentialRuns : DelayElapsed(r)

SpecSkip == Init /\ [][NextSkip]_vars

\* the records of a batch that the loop over the transactions does not skip
usableOf(transactions) == SelectSeq(transactions, isUsable)

\* the request has processed the batch `transactions` as if the records it
\* skips were not there, without an error, and goes on
skipsSilently(r, transactions) ==
    /\ run'[r].agg = processTransactions(run[r].agg, usableOf(transactions),
                                         run[r].address)
    /\ run'[r].batchErrors = run[r].batchErrors
    /\ run'[r].outcome # "failure"
    /\ run'[r].pc \in {"delay", "done"}
    /\ run'[r].pc = "done" <=> run[r].i + batchSizeOf(isHelius)
                                   >= maxTransactionsOf(run[r].signatures, isHelius)

\* C34: a fetched record that is absent or has no meta is skipped silently:
\* the step that processes a batch leaves the aggregate as the usable records
\* of the batch alone make it, records after a skipped one included, raises
\* no error, and the loop goes on to the next batch or to the result
C34_SkippedSilently ==
    [][\A r \in SequentialRuns :
          /\ run[r].pc = "gap" /\ run'[r].pc # "fetchOne" /\ run'[r] # run[r]
             => skipsSilently(r, run[r].transactions)
          /\ run[r].pc = "fetchBatch" /\ run'[r] # run[r]
             => \E transactions \in FetchedBatch(r) :
                    /\ run'[r].fetched = run[r].fetched + received(transactions)
                    /\ skipsSilently(r, transactions)]_vars

\* four records were requested one by one: one was absent, one had no meta,
\* and the two payments, in the first or the second batch, are both counted
C34_Witness ==
    /\ run[1].pc = "done"
    /\ run[1].outcome = "success"
    /\ isHelius
    /\ run[1].requested = 4
    /\ run[1].fetched = 3
    /\ volumeOf(run[1].agg, "X") = 4000000
    /\ run[1].batchErrors = 0

\* the lastInteraction a map holds for an account, 'Unknown' without entry
lastInteractionOf(relatedAccountsMap, account) ==
    IF MapHas(relatedAccountsMap, account)
    THEN MapGet(relatedAccountsMap, account, null).lastInteraction
    ELSE Unknown

\* the transactionCount a map holds for an account, 0 without entry
transactionCountOf(relatedAccountsMap, account) ==
    IF MapHas(relatedAccountsMap, account)
    THEN MapGet(relatedAccountsMap, account, null).transactionCount
    ELSE 0

\* the later of two instants, 0 standing for none
Later(a, b) == IF a > b THEN a ELSE b

\* the step that processes the record of signature i keeps the time of every
\* counterparty, or moves it up to the blockTime of the record
lastInteractionAdvances(account) ==
    LET prev == lastInteractionOf(uncached.relatedAccountsMap, account)
        cur == lastInteractionOf(uncached'.relatedAccountsMap, account)
        blockTime == uncached.signatures[uncached.i + 1]
        changed == transactionCountOf(uncached'.relatedAccountsMap, account)
                       > transactionCountOf(uncached.relatedAccountsMap, account)
    IN  /\ prev.known => cur.known
        /\ cur.time >= prev.time
        /\ changed => /\ cur.known <=> (prev.known \/ blockTime # 0)
                      /\ cur.time = Later(prev.time, blockTime)
        /\ ~changed => cur = prev

\* C35: during a run the lastInteraction of a counterparty never moves back
\* and never returns to 'Unknown' once known, in whatever order the
\* blockTimes arrive: each record that changes the counterparty's balances
\* leaves it at the later of its value and the record's blockTime, every
\* other step leaves it alone, so that at the end it is the latest blockTime
\* among the records that changed the counterparty's balances, which is
\* what the result reports
C35_LastInteractionLatest ==
    /\ [](uncached.pc = "done" /\ "relatedAccounts" \in DOMAIN uncached.result
          => \A n \in 1..Len(uncached.result.relatedAccounts) :
                uncached.result.relatedAccounts[n].lastInteraction
                    = lastInteractionOf(uncached.relatedAccountsMap,
                                        uncached.result.relatedAccounts[n].address))
    /\ [][/\ uncached.pc \in {"gap", "fetchOne", "fetchBatch"}
             => \A account \in {"X", "Y"} : lastInteractionAdvances(account)
          /\ uncached.pc \notin {"gap", "fetchOne", "fetchBatch", "idle", "done"}
             => uncached'.relatedAccountsMap = uncached.relatedAccountsMap]_vars

\* X was paid in two records, the first listed at instant 20 and the second
\* at instant 10: the earlier time arrived last and X is reported at 20
C35_Witness ==
    /\ uncached.pc = "done"
    /\ uncached.status = 200
    /\ uncached.signatures = <<20, 10>>
    /\ transactionCountOf(uncached.relatedAccountsMap, "X") = 2
    /\ \E n \in 1..Len(uncached.result.relatedAccounts) :
          /\ uncached.result.relatedAccounts[n].address = "X"
          /\ uncached.result.relatedAccounts[n].lastInteraction = toISOString(20)

\* the transactionTypes a map holds for an account, none without entry
transactionTypesOf(relatedAccountsMap, account) ==
    IF MapHas(relatedAccountsMap, account)
    THEN MapGet(relatedAccountsMap, account, null).transactionTypes
    ELSE << >>

\* sequence a is the beginning of sequence b
IsPrefix(a, b) == Len(a) <= Len(b) /\ SubSeq(b, 1, Len(a)) = a

\* the labels of observed transaction types
TypeLabels == {"SOL Inflow", "SOL Outflow", "Token Transfer"}

\* C36: the list of transaction types of a counterparty only grows at its
\* end during a run, and holds each of the labels 'SOL Inflow', 'SOL Outflow'
\* and 'Token Transfer' at most once, and nothing else, however many records
\* carry the same kind of change
C36_TypesAppendOnly ==
    /\ [](\A n \in 1..Len(uncached.relatedAccountsMap) :
             LET types == uncached.relatedAccountsMap[n][2].transactionTypes
             IN  /\ Range(types) \subseteq TypeLabels
                 /\ \A j, k \in 1..Len(types) : types[j] = types[k] => j = k)
    /\ [][uncached.pc \notin {"idle", "done"}
          => \A account \in {"X", "Y"} :
                 IsPrefix(transactionTypesOf(uncached.relatedAccountsMap, account),
                          transactionTypesOf(uncached'.relatedAccountsMap, account))]_vars

\* two records changed Y's native and token balances, four changes in
\* all: the list names each kind of change once, in the order met
C36_Witness ==
    /\ uncached.pc = "done"
    /\ Len(uncached.signatures) = 2
    /\ transactionCountOf(uncached.relatedAccountsMap, "Y") = 4
    /\ transactionTypesOf(uncached.relatedAccountsMap, "Y")
           = <<"SOL Outflow", "Token Transfer">>

----------------------------------------------------------------------------
(* Overlap specification: two requests in flight at once. Each await of    *)
(* analyzeAddress is a point where the other request may run; between two  *)
(* awaits a request runs alone, so each action is one such stretch         *)
(* The requests overlap within one instant of the clock                    *)

\* the addresses of the overlapping requests
OverlapAddresses == {"A1", "A8"}

\* the numbers of signatures the listing call returns to them
OverlapListings == {0, 1}

NextOverlap ==
    \/ \E r \in Runs, address \in OverlapAddresses : Start(r, address, TRUE)
    \/ \E r \in Runs, signatures \in OverlapListings : ListingReturns(r, signatures)
    \/ \E r \in Runs : ListingFails(r, "fetch failed")
    \/ \E r \in Runs : FetchOneReturns(r)
    \/ \E r \in Runs : GapElapsed(r)
    \/ \E r \in Runs : FetchBatchReturns(r)

SpecOverlap == Init /\ [][NextOverlap]_vars

\* what the store holds for an address after the step
entryAfter(address) == MapGet(analysisCache', getCacheKey(address), null)

\* the step is the return of request r with a result it has computed
completes(r) ==
    /\ run'[r] # run[r]
    /\ run'[r].pc = "done"
    /\ run'[r].outcome \in {"success", "failure"}

\* C37: requests are not coalesced. A request for an address without entry
\* issues its own listing call, whatever the other request is doing, and a
\* request that returns a computed result has asked for every record itself.
\* The store holds at most one entry per address, it changes only when a
\* request returns a computed result, and the entry of that request's
\* address is then the whole payload of that request, built from its own
\* aggregate: the payload of the request that wrote last, never a mixture
C37_NoCoalescing ==
    /\ [](/\ \A j, k \in 1..Len(analysisCache) :
                analysisCache[j][1] = analysisCache[k][1] => j = k
          /\ \A r \in Runs :
                run[r].pc = "done" /\ run[r].outcome = "success"
                => /\ run[r].upstream >= 2
                   /\ run[r].requested = maxTransactionsOf(run[r].signatures, isHelius))
    /\ [][/\ \A r \in Runs, address \in OverlapAddresses :
                /\ run[r].pc \in {"idle", "done"}
                /\ run'[r].pc # run[r].pc \/ run'[r].address # run[r].address
                /\ run'[r].address = address
                /\ entryOf(address) = null
                => run'[r].pc = "listing" /\ run'[r].upstream = 1
          /\ analysisCache' # analysisCache => \E r \in Runs : completes(r)
          /\ \A r \in Runs :
                completes(r)
                => /\ entryAfter(run[r].address) # null
                   /\ entryAfter(run[r].address).data = run'[r].result
                   /\ run'[r].outcome = "success"
                      => run'[r].result
                             = SuccessResult(run[r].address,
                                             relatedAccountsOf(run'[r].agg))]_vars

\* two requests for A1 overlapped (the second would have hit the store
\* otherwise): both computed a result, the results differ, and the store
\* holds one entry for A1, the result of the second slot
C37_Witness ==
    /\ \A r \in Runs : /\ run[r].pc = "done"
                       /\ run[r].address = "A1"
                       /\ run[r].outcome = "success"
    /\ run[1].result # run[2].result
    /\ run[1].result.relatedAccounts # << >>
    /\ run[2].result.relatedAccounts # << >>
    /\ entryOf("A1") # null
    /\ entryOf("A1").data = run[2].result

\* C38: a live success entry is never replaced by an error entry: an address
\* whose entry is live and without error keeps, in every step, an entry
\* without error, which is what a later request within the ttl is given
C38_SuccessNotReplaced ==
    [][\A address \in OverlapAddresses :
          /\ entryOf(address) # null
          /\ ~isExpired(entryOf(address), now)
          /\ ~hasError(entryOf(address).data)
          => /\ entryAfter(address) # null
             /\ ~hasError(entryAfter(address).data)]_vars

\* C39: every entry of the store is kept under the key of its payload's
\* address, the payload has isValid true, and the ttl is that of a success
\* result exactly when the payload has no error and that of an error result
\* exactly when it has one; a step of a request for one address neither
\* adds nor replaces the entry of another address
C39_EntriesWellFormed ==
    /\ [](\A n \in 1..Len(analysisCache) :
             LET key == analysisCache[n][1]
                 entry == analysisCache[n][2]
             IN  /\ key = getCacheKey(entry.data.address)
                 /\ entry.data.isValid
                 /\ entry.ttl = CACHE_TTL <=> ~hasError(entry.data)
                 /\ entry.ttl = shortCacheTime <=> hasError(entry.data))
    /\ [][\A r \in Runs, address \in OverlapAddresses :
             run'[r] # run[r] /\ address # run'[r].address
             => entryAfter(address) \in {entryOf(address), null}]_vars

\* the store holds the success result of A1 and the error result of A8, the
\* second one written while the first was there
C39_Witness ==
    /\ Len(analysisCache) = 2
    /\ entryOf("A1") # null
    /\ entryOf("A1").ttl = CACHE_TTL
    /\ entryOf("A1").data.relatedAccounts # << >>
    /\ entryOf("A8") # null
    /\ entryOf("A8").ttl = shortCacheTime
    /\ hasError(entryOf("A8").data)

====
